---- MODULE Spec2Model ----
(***************************************************************************)
(* State-machine model of WebAI-to-API's session-lifecycle layer           *)
(* (src/app/services/gemini_client.py) and of the callers that drive it    *)
(* (src/app/main.py lifespan, src/app/endpoints/admin_api.py).             *)
(*                                                                         *)
(* The process is one asyncio event loop: a coroutine runs without         *)
(* interruption between two awaits, so every action below is the code      *)
(* between two suspension points of one coroutine.                         *)
(***************************************************************************)
EXTENDS Integers, Sequences, FiniteSets, TLC

(***************************************************************************)
(* Bounds of the model.                                                    *)
(***************************************************************************)
\* init_gemini_client calls made in one behaviour
MaxCalls == 3

(***************************************************************************)
(* Values.  A cookie or flag string is a sequence of one-character         *)
(* strings, so that str.strip/str.lower are computed and not assumed.      *)
(***************************************************************************)
\* Python's None where a string is expected
None == <<"<None>">>
\* _gemini_client is None
NoSession == 0
\* _initialization_error is None / _error_code is None
NoError == <<"<None>">>
NoCode == "<None>"

Whitespace == {" ", "\t", "\n"}
DQ == "\""
SQ == "'"

A == <<"a">>
\* names of the default model in CONFIG
M0 == <<"m", "0">>
M1 == <<"m", "1">>
QB == <<DQ, "b", DQ>>
Empty == <<>>

\* credential pairs (already normalized) the upstream accepts
\* a value the upstream service issued when it rotated a credential
R == <<"r">>
\* a persisted value somebody pasted with its quotes
QA == <<DQ, "a", DQ>>
ValidPairs == {<<A, A>>, <<A, R>>}

\* the coroutines that call init_gemini_client: the lifespan at startup, and
\* two admin requests that may be in flight together
Lifespan == "lifespan"
Admins == {"admin1", "admin2"}
Callers == {Lifespan} \cup Admins

(***************************************************************************)
(* Pure helpers of gemini_client.py.                                       *)
(***************************************************************************)
RECURSIVE LStrip(_, _)
LStrip(s, chars) ==
    IF s = <<>> THEN s
    ELSE IF Head(s) \in chars THEN LStrip(Tail(s), chars) ELSE s

RECURSIVE RStrip(_, _)
RStrip(s, chars) ==
    IF s = <<>> THEN s
    ELSE IF s[Len(s)] \in chars THEN RStrip(SubSeq(s, 1, Len(s) - 1), chars) ELSE s

\* str.strip(chars)
Strip(s, chars) == RStrip(LStrip(s, chars), chars)

\* value.strip().strip('"').strip("'"), "" for None
_normalize_cookie(value) ==
    IF value = None THEN <<>>
    ELSE Strip(Strip(Strip(value, Whitespace), {DQ}), {SQ})

UpperCase == <<"A", "B", "C", "D", "E", "F", "G", "H", "I", "J", "K", "L", "M",
               "N", "O", "P", "Q", "R", "S", "T", "U", "V", "W", "X", "Y", "Z">>
LowerCase == <<"a", "b", "c", "d", "e", "f", "g", "h", "i", "j", "k", "l", "m",
               "n", "o", "p", "q", "r", "s", "t", "u", "v", "w", "x", "y", "z">>

LowerChar(c) ==
    IF \E i \in 1..26 : UpperCase[i] = c
    THEN LowerCase[CHOOSE i \in 1..26 : UpperCase[i] = c]
    ELSE c

\* str.lower
Lower(s) == [i \in 1..Len(s) |-> LowerChar(s[i])]

TruthyWords == {<<"1">>, <<"t", "r", "u", "e">>, <<"y", "e", "s">>, <<"o", "n">>}

\* str(value or "").strip().lower() in {"1", "true", "yes", "on"}
_env_truthy(value) ==
    Lower(Strip(IF value = None \/ value = <<>> THEN <<>> ELSE value, Whitespace))
        \in TruthyWords

\* the candidate when both halves are non-empty, else nothing
PairIfComplete(source, psid, psidts) ==
    IF psid # <<>> /\ psidts # <<>> THEN << <<source, psid, psidts>> >> ELSE <<>>

\* the duplicate check left out: the persisted pair is always appended
ConfigDistinct_NoCheck(cfgPair, envPair) == TRUE

\* line 57: the persisted pair is appended only when it is not the environment pair
ConfigDistinct(cfgPair, envPair) == cfgPair # envPair

\* lines 49-66: the ordered candidate list.  cfg and env are records of raw
\* values; browser is None or a pair of raw values
BuildCandidates(env, cfg, browser) ==
    LET env1 == _normalize_cookie(env.psid)
        env2 == _normalize_cookie(env.psidts)
        cfg1 == _normalize_cookie(cfg.psid)
        cfg2 == _normalize_cookie(cfg.psidts)
        fromEnv == PairIfComplete("env", env1, env2)
        fromCfg == IF ConfigDistinct(<<cfg1, cfg2>>, <<env1, env2>>)
                   THEN PairIfComplete("config", cfg1, cfg2) ELSE <<>>
        first == fromEnv \o fromCfg
    IN  IF first = <<>> /\ ~_env_truthy(env.disableFallback) /\ browser # None
        THEN PairIfComplete("browser", _normalize_cookie(browser[1]),
                            _normalize_cookie(browser[2]))
        ELSE first

(***************************************************************************)
(* State.                                                                  *)
(***************************************************************************)
VARIABLES
    client,      \* _gemini_client: a session id, or NoSession
    initError,   \* _initialization_error
    errorCode,   \* _error_code
    config,      \* CONFIG: [enabled, proxy, psid, psidts, model]
    environ,     \* os.environ: [psid, psidts, disableFallback]
    browser,     \* what get_cookie_from_browser("gemini") returns
    sessions,    \* every MyGeminiClient constructed so far, by session id
    call,        \* per caller: the frame of its init_gemini_client call
    ret,         \* per caller: what its call returned and the globals then
    ncalls,      \* init_gemini_client calls started so far
    phase,       \* "boot" until the lifespan has yielded, then "serving"
    lastGot,     \* what the latest get_gemini_client() call gave its caller
    lastStatus,  \* what the latest GET /status answered
    candIn,      \* inputs of the candidate-list check
    candOut,     \* the list built from candIn
    jar,         \* the live session's cookie jar, once the upstream rotated it
    disk,        \* config.conf as it is on disk: [psid, psidts, proxy, model]
    diskOk,      \* whether config.conf can be written at the moment
    persistTask, \* _persist_task: "None", or "running" when it holds the task
                 \* created last
    tasks,       \* the loop tasks created so far: "sleeping", "cancelling" once
                 \* cancel() was called on it, "cancelled" when it is done
    startRet,    \* what the latest start_cookie_persister call returned
    lastTick,    \* what the latest iteration of _persist_cookies_loop did
    gen,         \* the frame of the streaming generator and what it yielded
    now,         \* int(time.time())
    shot,        \* the single-shot response built for the same upstream response
    modelCall,   \* the frame of a _resolve_model call
    notifier,    \* the TelegramNotifier: its settings, _last_sent, the calls of
                 \* notify_error in flight, the messages delivered, the clock
    fs,          \* the files on disk, by path
    req,         \* per request: the frame of its handler
    ms,          \* int(time.time() * 1000)
    running,     \* the request whose handler runs between two awaits
    cleanupCall, \* the frame of a cleanup_temp_files call
    fileCall     \* what the latest call of a file endpoint did

lifecycleVars == <<client, initError, errorCode, config, environ, browser,
                   sessions, call, ret, ncalls, phase, lastGot, lastStatus>>
candVars == <<candIn, candOut>>
rotVars == <<jar, disk, diskOk, persistTask, tasks, startRet, lastTick>>
genVars == <<gen, now, shot>>
callVars == <<modelCall, notifier, cleanupCall, fileCall>>
reqVars == <<modelCall, notifier, fs, req, ms, running, cleanupCall, fileCall>>
vars == <<client, initError, errorCode, config, environ, browser, sessions,
          call, ret, ncalls, phase, lastGot, lastStatus, candIn, candOut,
          jar, disk, diskOk, persistTask, tasks, startRet, lastTick, gen, now, shot,
          modelCall, notifier, fs, req, ms, running, cleanupCall, fileCall>>

\* messages are tuples: <<>> is the empty string, the others name their text
NoCookiesMsg == <<"Gemini cookies not found.">>
DisabledMsg == <<"Gemini client is disabled in config.">>
NotInitializedMsg == <<"Gemini client was not initialized.">>
\* str(e) of the exception that init() of session sid raised: a message of
\* its own, or the empty message of a TimeoutError() built without arguments
ErrTexts(kind, sid) ==
    IF kind = "TimeoutError" THEN {<<>>} ELSE {<<kind, sid>>}

IdleFrame == [pc |-> "idle", cands |-> <<>>, idx |-> 0, proxy |-> None,
              lastAuth |-> NoError, attempts |-> <<>>]
NoRet == [success |-> FALSE, client |-> NoSession, error |-> NoError,
          error_code |-> NoCode]

\* lines 45-47: an empty proxy string is no proxy
ProxyOf(cfg) == IF cfg.proxy = <<>> THEN None ELSE cfg.proxy

\* lines 80-84: MyGeminiClient(secure_1psid, secure_1psidts, proxy)
NewSession(cand, proxy) ==
    [psid |-> cand[2], psidts |-> cand[3], proxy |-> proxy, state |-> "pending"]

SessionValid(sid) == <<sessions[sid].psid, sessions[sid].psidts>> \in ValidPairs

\* lines 129-135
get_client_status ==
    [initialized |-> client # NoSession, error |-> initError, error_code |-> errorCode]

\* the call returns `success` to its caller, which goes on without suspending
\* (admin_api.py 146-147): ret holds the globals as they are at that moment
Returned(p, frame, success) ==
    /\ call' = [call EXCEPT ![p] = [frame EXCEPT !.pc = "done"]]
    /\ ret' = [ret EXCEPT ![p] = [success |-> success, client |-> client',
                                  error |-> initError', error_code |-> errorCode']]

\* lines 78-85: the loop takes candidate i, builds its session, stores it in
\* the global and suspends in init()
Attempt(p, frame, i, made) ==
    LET sid == Len(made) + 1
    IN  /\ sessions' = Append(made, NewSession(frame.cands[i], frame.proxy))
        /\ client' = sid
        /\ call' = [call EXCEPT ![p] =
                [frame EXCEPT !.pc = "await_init", !.idx = i,
                              !.attempts = Append(@, [source |-> frame.cands[i][1],
                                                      sid |-> sid,
                                                      outcome |-> "pending",
                                                      text |-> <<>>])]]
        /\ UNCHANGED ret

\* the enabled flag is not looked at
InitPrefix_IgnoresDisabled(p, cfg) ==
    LET cs == BuildCandidates(environ, cfg, browser)
        frame == [IdleFrame EXCEPT !.cands = cs, !.proxy = ProxyOf(cfg)]
    IN  /\ ncalls' = ncalls + 1
        /\ IF cs = <<>>
           THEN /\ errorCode' = "no_cookies"
                /\ initError' = NoCookiesMsg
                /\ UNCHANGED <<client, sessions>>
                /\ Returned(p, frame, FALSE)
           ELSE /\ errorCode' = NoCode
                /\ initError' = NoError
                /\ Attempt(p, frame, 1, sessions)

\* lines 40-85: init_gemini_client up to its first suspension, run with the
\* configuration cfg in force
InitPrefix(p, cfg) ==
    LET cs == BuildCandidates(environ, cfg, browser)
        frame == [IdleFrame EXCEPT !.cands = cs, !.proxy = ProxyOf(cfg)]
    IN  /\ ncalls' = ncalls + 1
        /\ IF ~cfg.enabled
           THEN /\ errorCode' = "disabled"
                /\ initError' = DisabledMsg
                /\ UNCHANGED <<client, sessions>>
                /\ Returned(p, IdleFrame, FALSE)
           ELSE IF cs = <<>>
           THEN /\ errorCode' = "no_cookies"
                /\ initError' = NoCookiesMsg
                /\ UNCHANGED <<client, sessions>>
                /\ Returned(p, frame, FALSE)
           ELSE /\ errorCode' = NoCode
                /\ initError' = NoError
                /\ Attempt(p, frame, 1, sessions)

\* the attempt in flight, closed with its outcome
Closed(frame, outcome, text) ==
    [frame EXCEPT !.attempts[Len(frame.attempts)].outcome = outcome,
                  !.attempts[Len(frame.attempts)].text = text]

CurSid(p) == call[p].attempts[Len(call[p].attempts)].sid

NoCandIn == [env |-> [psid |-> None, psidts |-> None, disableFallback |-> None],
             cfg |-> [psid |-> None, psidts |-> None], browser |-> None]
NotBuilt == [built |-> FALSE, list |-> <<>>]

NoStatus == [kind |-> "none"]
\* no rotation yet: every session's jar holds the values it was built with
NoJar == [sid |-> NoSession, psid |-> None, psidts |-> None]
NoTick == [kind |-> "none", odd |-> FALSE]
NoStart == [odd |-> FALSE, task |-> 0, created |-> FALSE]
IdleGen == [pc |-> "idle"]
NoShot == [fn |-> "none"]
NoModelCall == [pc |-> "none"]
NoNotifier == [pc |-> "none"]
NoFiles == [p \in {} |-> 0]
NoCall == [pc |-> "none"]

\* config.py 163-166: what config.write(f) puts in the file
DiskOf(cfg) ==
    [psid |-> cfg.psid, psidts |-> cfg.psidts, proxy |-> cfg.proxy, model |-> cfg.model]

\* the write puts the cookie values in the file and nothing else
write_config_CookiesOnly(cfg) ==
    IF diskOk THEN [disk EXCEPT !.psid = cfg.psid, !.psidts = cfg.psidts] ELSE disk

\* config.py 156-169: write_config(cfg) leaves the file as it was when the
\* write fails, and returns False instead of raising
write_config(cfg) == IF diskOk THEN DiskOf(cfg) ELSE disk

\* what every specification below starts from, besides its own inputs
Unstarted ==
    /\ lastStatus = NoStatus
    /\ jar = NoJar
    /\ disk = DiskOf(config)
    /\ diskOk = TRUE
    /\ persistTask = "None"
    /\ tasks = <<>>
    /\ startRet = NoStart
    /\ lastTick = NoTick
    /\ gen = IdleGen
    /\ now = 0
    /\ shot = NoShot

\* no request has come in
NoRequests ==
    /\ modelCall = NoModelCall
    /\ notifier = NoNotifier
    /\ fs = NoFiles
    /\ req = [r \in {} |-> 0]
    /\ ms = 0
    /\ running = "none"
    /\ cleanupCall = NoCall
    /\ fileCall = NoCall

Init ==
    /\ client = NoSession
    /\ initError = NoError
    /\ errorCode = NoCode
    /\ \E c \in {<<None, None>>, <<A, A>>, <<QB, A>>} :
         config \in [enabled : BOOLEAN, proxy : {Empty}, psid : {c[1]}, psidts : {c[2]},
                    model : {M0}]
    /\ \E e \in {<<None, None>>, <<QB, QB>>} :
       \E f \in {<<None, None>>, <<None, <<A, A>>>>, <<<<"1">>, <<A, A>>>>} :
         /\ environ = [psid |-> e[1], psidts |-> e[2], disableFallback |-> f[1]]
         /\ browser = f[2]
    /\ sessions = <<>>
    /\ call = [p \in Callers |-> IdleFrame]
    /\ ret = [p \in Callers |-> NoRet]
    /\ ncalls = 0
    /\ phase = "boot"
    /\ lastGot = [kind |-> "none"]
    /\ candIn = NoCandIn
    /\ candOut = NotBuilt
    /\ Unstarted
    /\ NoRequests

(***************************************************************************)
(* init_gemini_client after its suspension in init().                      *)
(***************************************************************************)
\* lines 85-87: init() returned; the call returns True and writes no global
InitSucceeds(p) ==
    /\ call[p].pc = "await_init"
    /\ SessionValid(CurSid(p))
    /\ sessions' = [sessions EXCEPT ![CurSid(p)].state = "ready"]
    /\ UNCHANGED <<client, initError, errorCode, config, environ, browser, ncalls,
                   phase, lastGot, lastStatus, candVars,
                   rotVars, genVars, reqVars>>
    /\ Returned(p, Closed(call[p], "ok", <<>>), TRUE)

\* the loop leaves out the candidate that follows a failed one
NextCandidate_Skip(i) == i + 2

\* line 78: the candidate the loop takes after candidate i raised AuthError
NextCandidate(i) == i + 1

AuthFailedMsg == <<"Gemini authentication failed.">>

\* line 106: str(last_auth_error) if last_auth_error else the fixed message
AuthExpiredDetail(frame) ==
    IF frame.lastAuth # NoError THEN frame.lastAuth ELSE AuthFailedMsg

\* lines 88-91, then the next iteration (78-85) or the loop's end (105-108)
InitAuthError(p) ==
    /\ call[p].pc = "await_init"
    /\ ~SessionValid(CurSid(p))
    /\ \E text \in ErrTexts("AuthError", CurSid(p)) :
        LET frame == [Closed(call[p], "auth", text) EXCEPT !.lastAuth = text]
            next == NextCandidate(call[p].idx)
        IN  IF next <= Len(frame.cands)
            THEN /\ Attempt(p, frame, next,
                            [sessions EXCEPT ![CurSid(p)].state = "failed"])
                 /\ UNCHANGED <<initError, errorCode>>
            ELSE /\ client' = NoSession
                 /\ errorCode' = "auth_expired"
                 /\ initError' = AuthExpiredDetail(frame)
                 /\ sessions' = [sessions EXCEPT ![CurSid(p)].state = "failed"]
                 /\ Returned(p, frame, FALSE)
    /\ UNCHANGED <<config, environ, browser, ncalls, phase, lastGot, lastStatus, candVars,
                   rotVars, genVars, reqVars>>

\* the handler forgets `_gemini_client = None`
Abort_KeepsHandle(p, outcome, code, text) ==
    /\ client' = client
    /\ errorCode' = code
    /\ initError' = text
    /\ sessions' = [sessions EXCEPT ![CurSid(p)].state = "failed"]
    /\ Returned(p, Closed(call[p], outcome, text), FALSE)

\* lines 92-103: the call ends at once with the given error code
Abort(p, outcome, code, text) ==
    /\ client' = NoSession
    /\ errorCode' = code
    /\ initError' = text
    /\ sessions' = [sessions EXCEPT ![CurSid(p)].state = "failed"]
    /\ Returned(p, Closed(call[p], outcome, text), FALSE)

\* lines 92-97: ConnectionError, OSError or TimeoutError
InitNetworkError(p) ==
    /\ call[p].pc = "await_init"
    /\ \E text \in ErrTexts("TimeoutError", CurSid(p)) : Abort(p, "network", "network", text)
    /\ UNCHANGED <<config, environ, browser, ncalls, phase, lastGot, lastStatus, candVars,
                   rotVars, genVars, reqVars>>

\* lines 98-103: any other exception
InitUnknownError(p) ==
    /\ call[p].pc = "await_init"
    /\ \E text \in ErrTexts("Exception", CurSid(p)) : Abort(p, "unknown", "unknown", text)
    /\ UNCHANGED <<config, environ, browser, ncalls, phase, lastGot, lastStatus, candVars,
                   rotVars, genVars, reqVars>>

(***************************************************************************)
(* The callers of init_gemini_client.                                      *)
(***************************************************************************)
\* main.py 38-56: the lifespan finds no client and initializes it
LifespanInit ==
    /\ phase = "boot"
    /\ call[Lifespan].pc = "idle"
    /\ client = NoSession
    /\ InitPrefix(Lifespan, config)
    /\ UNCHANGED <<config, environ, browser, phase, lastGot, lastStatus, candVars,
                   rotVars, genVars, reqVars>>

\* a task is created at every call
start_cookie_persister_Always(handle, ts) == Append(ts, "sleeping")

\* lines 180-187: the tasks after the call; one is created unless
\* _persist_task holds a task that is not done.  The handle is "running"
\* after the call either way.
start_cookie_persister(handle, ts) ==
    IF handle # "None" /\ ts[Len(ts)] # "cancelled" THEN ts
    ELSE Append(ts, "sleeping")

\* lines 190-196: the tasks after the call; cancel() is called on the task
\* _persist_task holds if it is not done.  The handle is "None" after the call.
stop_cookie_persister(handle, ts) ==
    IF handle # "None" /\ ts[Len(ts)] # "cancelled"
    THEN [ts EXCEPT ![Len(ts)] = "cancelling"]
    ELSE ts

\* line 187: the call returns the task _persist_task holds now, the last of
\* `after`, which it created or found
Started(before, after) ==
    [odd |-> ~startRet.odd, task |-> Len(after), created |-> Len(after) > Len(before)]

\* a task woken from its sleep goes on with the loop although cancel() was
\* called on it
Awake_UntilDone(state) == state # "cancelled"

\* lines 147, 177: asyncio.sleep returns in a task no cancel() was called on,
\* and the loop body runs
Awake(state) == state = "sleeping"

\* main.py 58-67: the lifespan's call has returned; the rotation loop is
\* started if a client is installed, and the application serves
LifespanYield ==
    /\ phase = "boot"
    /\ call[Lifespan].pc = "done"
    /\ phase' = "serving"
    /\ call' = [call EXCEPT ![Lifespan] = IdleFrame]
    /\ persistTask' = IF client # NoSession THEN "running" ELSE persistTask
    /\ tasks' = IF client # NoSession THEN start_cookie_persister(persistTask, tasks)
                ELSE tasks
    /\ startRet' = IF client # NoSession THEN Started(tasks, tasks') ELSE startRet
    /\ UNCHANGED <<client, initError, errorCode, config, environ, browser, sessions,
                   ret, ncalls, lastGot, lastStatus, candVars,
                   jar, disk, diskOk, lastTick, genVars, reqVars>>

CanCall(p) ==
    /\ phase = "serving"
    /\ call[p].pc = "idle"
    /\ ncalls < MaxCalls

\* admin_api.py 139-146: POST /config/cookies
update_cookies(p) ==
    /\ CanCall(p)
    /\ \E c \in {<<Empty, Empty>>, <<A, A>>} :
        /\ config' = [config EXCEPT !.psid = c[1], !.psidts = c[2]]
        /\ disk' = write_config(config')
        /\ InitPrefix(p, config')
    /\ UNCHANGED <<environ, browser, phase, lastGot, lastStatus, candVars,
                   jar, diskOk, persistTask, tasks, startRet, lastTick, genVars, reqVars>>

\* admin_api.py 165-171: POST /config/proxy
update_proxy(p) ==
    /\ CanCall(p)
    /\ \E x \in {<<"p">>} :
        /\ config' = [config EXCEPT !.proxy = x]
        /\ disk' = write_config(config')
        /\ InitPrefix(p, config')
    /\ UNCHANGED <<environ, browser, phase, lastGot, lastStatus, candVars,
                   jar, diskOk, persistTask, tasks, startRet, lastTick, genVars, reqVars>>

\* admin_api.py 157-162: POST /config/model
update_model ==
    /\ phase = "serving"
    /\ \E m \in {M0, M1} :
        /\ m # config.model
        /\ config' = [config EXCEPT !.model = m]
        /\ disk' = write_config(config')
    /\ UNCHANGED <<client, initError, errorCode, environ, browser, sessions, call, ret,
                   ncalls, phase, lastGot, lastStatus, candVars,
                   jar, diskOk, persistTask, tasks, startRet, lastTick, genVars, reqVars>>

\* admin_api.py 175-178: POST /client/reinitialize
reinitialize_client(p) ==
    /\ CanCall(p)
    /\ InitPrefix(p, config)
    /\ UNCHANGED <<config, environ, browser, phase, lastGot, lastStatus, candVars,
                   rotVars, genVars, reqVars>>

\* admin_api.py 147-154, 172, 179-185: the handler answers
AdminRespond(p) ==
    /\ p \in Admins
    /\ call[p].pc = "done"
    /\ call' = [call EXCEPT ![p] = IdleFrame]
    /\ ret' = [ret EXCEPT ![p] = NoRet]
    /\ UNCHANGED <<client, initError, errorCode, config, environ, browser, sessions,
                   ncalls, phase, lastGot, lastStatus, candVars,
                   rotVars, genVars, reqVars>>

\* the detail is the recorded one whatever it is
ErrorDetail_Verbatim(err) == err

\* line 124: _initialization_error or the fixed message
ErrorDetail(err) == IF err \in {NoError, <<>>} THEN NotInitializedMsg ELSE err

\* lines 116-126, called by the request handlers while the application serves;
\* `recorded` is the value of _initialization_error the call read
get_gemini_client ==
    /\ phase = "serving"
    /\ lastGot' = IF client = NoSession
                  THEN [kind |-> "raised", detail |-> ErrorDetail(initError),
                        recorded |-> initError]
                  ELSE [kind |-> "session", sid |-> client,
                        state |-> sessions[client].state]
    /\ UNCHANGED <<client, initError, errorCode, config, environ, browser, sessions,
                   call, ret, ncalls, phase, lastStatus, candVars, rotVars, genVars, reqVars>>

\* the status read clears the recorded error
get_status_Clearing ==
    /\ phase = "serving"
    /\ lastStatus' = [kind |-> "status",
                      gemini_status |-> IF client # NoSession THEN "connected"
                                        ELSE "disconnected",
                      client_error |-> get_client_status.error,
                      error_code |-> get_client_status.error_code]
    /\ initError' = NoError
    /\ errorCode' = NoCode
    /\ UNCHANGED <<client, config, environ, browser, sessions,
                   call, ret, ncalls, phase, lastGot, candVars, rotVars, genVars, reqVars>>

\* admin_api.py 54-74: GET /status calls get_client_status() (lines 129-135)
\* and get_gemini_client() and answers with what they gave
get_status ==
    /\ phase = "serving"
    /\ lastStatus' = [kind |-> "status",
                      gemini_status |-> IF client # NoSession THEN "connected"
                                        ELSE "disconnected",
                      client_error |-> get_client_status.error,
                      error_code |-> get_client_status.error_code]
    /\ UNCHANGED <<client, initError, errorCode, config, environ, browser, sessions,
                   call, ret, ncalls, phase, lastGot, candVars, rotVars, genVars, reqVars>>

Next ==
    \/ LifespanInit
    \/ LifespanYield
    \/ \E p \in Callers : InitSucceeds(p)
    \/ \E p \in Callers : InitAuthError(p)
    \/ \E p \in Callers : InitNetworkError(p)
    \/ \E p \in Callers : InitUnknownError(p)
    \/ \E p \in Admins : update_cookies(p)
    \/ \E p \in Admins : update_proxy(p)
    \/ \E p \in Admins : reinitialize_client(p)
    \/ \E p \in Admins : AdminRespond(p)

Spec == Init /\ [][Next]_vars

\* one admin caller, and the request handlers reading the client meanwhile
NextRead ==
    \/ LifespanInit
    \/ LifespanYield
    \/ InitSucceeds(Lifespan) \/ InitSucceeds("admin1")
    \/ InitAuthError(Lifespan) \/ InitAuthError("admin1")
    \/ InitNetworkError(Lifespan) \/ InitNetworkError("admin1")
    \/ InitUnknownError(Lifespan) \/ InitUnknownError("admin1")
    \/ update_cookies("admin1")
    \/ update_proxy("admin1")
    \/ reinitialize_client("admin1")
    \/ AdminRespond("admin1")
    \/ get_gemini_client
    \/ get_status

SpecRead == Init /\ [][NextRead]_vars

(***************************************************************************)
(* The candidate list as a function of its inputs: every combination of    *)
(* raw environment, persisted and browser values below is an initial       *)
(* state, and the one action builds the list as lines 49-66 do.            *)
(***************************************************************************)
RawCookies == {None, Empty, A, <<"b">>, <<" ", "a">>, <<DQ, "a", DQ>>, <<SQ, SQ>>}
RawFlags == {None, Empty, <<"1">>, <<"0">>, <<"O", "N">>, <<" ", "y", "e", "s">>,
             <<"n", "o">>}
RawBrowser == {None, <<A, A>>, <<A, Empty>>, <<<<SQ, "b", SQ>>, A>>}

InitCand ==
    /\ client = NoSession
    /\ initError = NoError
    /\ errorCode = NoCode
    /\ config = [enabled |-> TRUE, proxy |-> Empty, psid |-> None, psidts |-> None,
                 model |-> M0]
    /\ environ = [psid |-> None, psidts |-> None, disableFallback |-> None]
    /\ browser = None
    /\ sessions = <<>>
    /\ call = [p \in Callers |-> IdleFrame]
    /\ ret = [p \in Callers |-> NoRet]
    /\ ncalls = 0
    /\ phase = "boot"
    /\ lastGot = [kind |-> "none"]
    /\ candIn \in [env : [psid : RawCookies, psidts : RawCookies,
                          disableFallback : RawFlags],
                    cfg : [psid : RawCookies, psidts : RawCookies],
                    browser : RawBrowser]
    /\ candOut = NotBuilt
    /\ Unstarted
    /\ NoRequests

BuildList ==
    /\ ~candOut.built
    /\ candOut' = [built |-> TRUE,
                   list |-> BuildCandidates(candIn.env, candIn.cfg, candIn.browser)]
    /\ UNCHANGED <<lifecycleVars, candIn, rotVars, genVars, reqVars>>

NextCand == BuildList

SpecCand == InitCand /\ [][NextCand]_vars

(***************************************************************************)
(* The rotation-persistence loop.  The task sleeps between iterations, and *)
(* one iteration (lines 149-176) has no await in it, so it is one step.    *)
(* The upstream library rotates the live session's cookies in memory, the  *)
(* file may stop being writable, and one admin updates the cookies or      *)
(* re-initializes meanwhile.                                               *)
(***************************************************************************)
\* lines 152-154: the two values the jar of session sid holds
JarOf(sid) ==
    IF jar.sid = sid THEN <<jar.psid, jar.psidts>>
    ELSE <<sessions[sid].psid, sessions[sid].psidts>>

\* lines 156-157: CONFIG["Cookies"].get(key, "")
Persisted(v) == IF v = None THEN <<>> ELSE v

\* any jar value that differs counts as rotated, an empty one too
Rotated_Any(new, current) == new # current

\* lines 160, 164: new and new != current
Rotated(new, current) == new \notin {None, <<>>} /\ new # current

\* the iteration logs a warning when it finds no session
SkippedTick_Warns(odd) ==
    [kind |-> "tick", odd |-> odd, saw |-> NoSession, read |-> FALSE,
     jar |-> <<None, None>>, writes |-> 0, ok |-> FALSE, warned |-> TRUE]

\* line 150: with no session the iteration does nothing and goes to sleep
SkippedTick(odd) ==
    [kind |-> "tick", odd |-> odd, saw |-> NoSession, read |-> FALSE,
     jar |-> <<None, None>>, writes |-> 0, ok |-> FALSE, warned |-> FALSE]

\* lines 148-177: one iteration of the loop.  lastTick records the session
\* it saw, the jar values it read, how many times it called write_config
\* and whether that write reached the file; `odd` tells an iteration from
\* the one before it
Tick ==
    /\ \E i \in DOMAIN tasks : Awake(tasks[i])
    /\ IF client = NoSession
       THEN /\ lastTick' = SkippedTick(~lastTick.odd)
            /\ UNCHANGED <<config, disk>>
       ELSE LET new == JarOf(client)
                ch1 == Rotated(new[1], Persisted(config.psid))
                ch2 == Rotated(new[2], Persisted(config.psidts))
                cfg == [config EXCEPT !.psid = IF ch1 THEN new[1] ELSE @,
                                      !.psidts = IF ch2 THEN new[2] ELSE @]
                changed == ch1 \/ ch2
            IN  /\ config' = cfg
                /\ disk' = IF changed THEN write_config(cfg) ELSE disk
                /\ lastTick' = [kind |-> "tick", odd |-> ~lastTick.odd,
                                saw |-> client, read |-> TRUE, jar |-> new,
                                writes |-> IF changed THEN 1 ELSE 0,
                                ok |-> changed /\ diskOk, warned |-> FALSE]
    /\ UNCHANGED <<client, initError, errorCode, environ, browser, sessions, call,
                   ret, ncalls, phase, lastGot, lastStatus, candVars, jar, diskOk,
                   persistTask, tasks, startRet, genVars, reqVars>>

\* what the upstream's auto-refresh may leave in the jar
Rotations == {<<A, R>>, <<None, R>>, <<A, Empty>>}

\* lines 140-144: the library rotates the cookies of the live session
Rotate ==
    /\ client # NoSession
    /\ sessions[client].state = "ready"
    /\ \E v \in Rotations :
        /\ JarOf(client) # v
        /\ jar' = [sid |-> client, psid |-> v[1], psidts |-> v[2]]
    /\ UNCHANGED <<lifecycleVars, candVars, disk, diskOk, persistTask, tasks, startRet, lastTick,
                   genVars, reqVars>>

\* config.py 163-169: open() or write() starts or stops raising
DiskFlip ==
    /\ phase = "serving"
    /\ diskOk' = ~diskOk
    /\ UNCHANGED <<lifecycleVars, candVars, jar, disk, persistTask, tasks, startRet, lastTick,
                   genVars, reqVars>>

InitRot ==
    /\ client = NoSession
    /\ initError = NoError
    /\ errorCode = NoCode
    /\ \E c \in {<<None, None>>, <<A, A>>, <<QA, A>>, <<QB, A>>} :
         config = [enabled |-> TRUE, proxy |-> Empty, psid |-> c[1], psidts |-> c[2],
                 model |-> M0]
    /\ environ = [psid |-> None, psidts |-> None, disableFallback |-> None]
    /\ browser = None
    /\ sessions = <<>>
    /\ call = [p \in Callers |-> IdleFrame]
    /\ ret = [p \in Callers |-> NoRet]
    /\ ncalls = 0
    /\ phase = "boot"
    /\ lastGot = [kind |-> "none"]
    /\ candIn = NoCandIn
    /\ candOut = NotBuilt
    /\ Unstarted
    /\ NoRequests

NextRot ==
    \/ LifespanInit
    \/ LifespanYield
    \/ InitSucceeds(Lifespan) \/ InitSucceeds("admin1")
    \/ InitAuthError(Lifespan) \/ InitAuthError("admin1")
    \/ InitNetworkError(Lifespan) \/ InitNetworkError("admin1")
    \/ InitUnknownError(Lifespan) \/ InitUnknownError("admin1")
    \/ update_cookies("admin1")
    \/ reinitialize_client("admin1")
    \/ AdminRespond("admin1")
    \/ Rotate
    \/ DiskFlip
    \/ Tick

SpecRot == InitRot /\ [][NextRot]_vars

(***************************************************************************)
(* The rotation loop's task under any order of start and stop calls, and   *)
(* at shutdown.                                                            *)
(***************************************************************************)
MaxTasks == 3

\* a call of start_cookie_persister (lines 180-187)
StartPersister ==
    /\ phase = "serving"
    /\ Len(tasks) < MaxTasks
    /\ persistTask' = "running"
    /\ tasks' = start_cookie_persister(persistTask, tasks)
    /\ startRet' = Started(tasks, tasks')
    /\ UNCHANGED <<lifecycleVars, candVars, jar, disk, diskOk, lastTick, genVars, reqVars>>

\* a call of stop_cookie_persister (lines 190-196)
StopPersister ==
    /\ phase = "serving"
    /\ persistTask' = "None"
    /\ tasks' = stop_cookie_persister(persistTask, tasks)
    /\ UNCHANGED <<lifecycleVars, candVars, jar, disk, diskOk, startRet, lastTick,
                   genVars, reqVars>>

\* main.py 67-72: the lifespan resumes after its yield and stops the loop
LifespanShutdown ==
    /\ phase = "serving"
    /\ phase' = "shutdown"
    /\ persistTask' = "None"
    /\ tasks' = stop_cookie_persister(persistTask, tasks)
    /\ UNCHANGED <<client, initError, errorCode, config, environ, browser, sessions,
                   call, ret, ncalls, lastGot, lastStatus, candVars,
                   jar, disk, diskOk, startRet, lastTick, genVars, reqVars>>

\* lines 147, 177: the event loop resumes task i in its sleep with the
\* CancelledError that cancel() asked for, and the task is done
CancelDelivered(i) ==
    /\ i \in DOMAIN tasks
    /\ tasks[i] = "cancelling"
    /\ tasks' = [tasks EXCEPT ![i] = "cancelled"]
    /\ UNCHANGED <<lifecycleVars, candVars, jar, disk, diskOk, persistTask, startRet,
                   lastTick, genVars, reqVars>>

(***************************************************************************)
(* The writers of config.conf side by side: the rotation loop and the      *)
(* admin endpoints, with a session installed and the loop started, and a   *)
(* file that can be written or cannot.                                     *)
(***************************************************************************)
InitWriters ==
    /\ client = 1
    /\ initError = NoError
    /\ errorCode = NoCode
    /\ config = [enabled |-> TRUE, proxy |-> Empty, psid |-> A, psidts |-> A,
                 model |-> M0]
    /\ environ = [psid |-> None, psidts |-> None, disableFallback |-> None]
    /\ browser = None
    /\ sessions = <<[psid |-> A, psidts |-> A, proxy |-> None, state |-> "ready"]>>
    /\ call = [p \in Callers |-> IdleFrame]
    /\ ret = [p \in Callers |-> NoRet]
    /\ ncalls = 0
    /\ phase = "serving"
    /\ lastGot = [kind |-> "none"]
    /\ lastStatus = NoStatus
    /\ candIn = NoCandIn
    /\ candOut = NotBuilt
    /\ jar = NoJar
    /\ disk = DiskOf(config)
    /\ diskOk \in BOOLEAN
    /\ persistTask = "running"
    /\ tasks = <<"sleeping">>
    /\ startRet = [odd |-> TRUE, task |-> 1, created |-> TRUE]
    /\ lastTick = NoTick
    /\ gen = IdleGen
    /\ now = 0
    /\ shot = NoShot
    /\ NoRequests

NextWriters ==
    \/ Tick
    \/ Rotate
    \/ update_cookies("admin1")
    \/ update_proxy("admin1")
    \/ update_model
    \/ InitSucceeds("admin1")
    \/ AdminRespond("admin1")

SpecWriters == InitWriters /\ [][NextWriters]_vars

(***************************************************************************)
(* The streaming emulators.  A generator runs from one yield to the next   *)
(* in one step; the clock may advance between two yields.  A chunk or an   *)
(* event is kept as the dict that json.dumps serializes.                   *)
(***************************************************************************)
MaxClock == 2

Texts == {<<>>, <<"h">>, <<" ", "h">>, <<"h", "\n">>}
Img1 == [title |-> <<"t">>, url |-> <<"u">>]
Img2 == [title |-> <<>>, url |-> <<"v">>]
ImageLists == {<<>>, <<Img1>>, <<Img1, Img2>>}
ModelName == <<"gemini">>
Uuids == {<<"u1">>, <<"u2">>}
\* response.thoughts of the upstream response: None, or a text
Thoughts == {None, <<"w", "h", "y">>}

\* chat.py 275, responses.py 104: ![title](url)
MdLink(img) == <<"!", "[">> \o img.title \o <<"]", "(">> \o img.url \o <<")">>

RECURSIVE JoinLines(_)
\* "\n".join(lines)
JoinLines(lines) ==
    IF lines = <<>> THEN <<>>
    ELSE IF Len(lines) = 1 THEN lines[1]
    ELSE lines[1] \o <<"\n">> \o JoinLines(Tail(lines))

MdLinks(images) == JoinLines([i \in 1..Len(images) |-> MdLink(images[i])])

\* chat.py 273-276, responses.py 102-105: the text, or with images
\* f"{text}\n\n{md_links}".strip()
Content(text, images) ==
    IF images = <<>> THEN text
    ELSE Strip(text \o <<"\n", "\n">> \o MdLinks(images), Whitespace)

\* the id is built again from the clock at every chunk
ChunkId_Fresh(f, clock) == <<"chatcmpl-", clock>>

\* chat.py 270: completion_id is computed once and reused
ChunkId(f, clock) == f.completion_id

\* chat.py 278-284: the dict of one chunk
ChatChunk(id, f, delta, finish) ==
    [id |-> id, object |-> "chat.completion.chunk", created |-> f.created,
     model |-> f.model,
     choices |-> <<[index |-> 0, delta |-> delta, finish_reason |-> finish]>>]

\* chat.py 294-295, responses.py 166-167: the images ride along as an
\* extension field when there are any
WithImages(d, images) ==
    IF images # <<>> THEN d @@ ("images" :> images) ELSE d

\* chat.py 285: f"data: {json.dumps(chunk)}\n\n"
DataLine(chunk) == [json |-> TRUE, payload |-> chunk]
\* chat.py 306
DoneLine == [json |-> FALSE, payload |-> <<"[DONE]">>]

\* chat.py 278-306: the k-th item _stream_response yields; {} is <<>>
ChatYield(f, k, clock) ==
    LET id == ChunkId(f, clock)
    IN  CASE k = 1 -> DataLine(ChatChunk(id, f, [role |-> "assistant", content |-> <<>>],
                                         None))
          [] k = 2 -> DataLine(WithImages(ChatChunk(id, f, [content |-> f.content], None),
                                          f.images))
          [] k = 3 -> DataLine(ChatChunk(id, f, <<>>, <<"stop">>))
          [] k = 4 -> DoneLine

CanStart == gen.pc \in {"idle", "done"}

\* chat.py 385-390, responses.py 263-268: the handler passes the generator
\* the text and the images of the upstream response; `thoughts` is what that
\* response holds besides, which the generator is not given; `shot` pairs a
\* stream with the single-shot answer to the same upstream response, so a new
\* upstream response starts without one
\* chat.py 268-285: the call, up to the first yield
StartChat ==
    /\ CanStart
    /\ \E text \in Texts, images \in ImageLists, thoughts \in Thoughts :
        LET f == [pc |-> "running", fn |-> "_stream_response", text |-> text,
                  model |-> ModelName, images |-> images, thoughts |-> thoughts,
                  completion_id |-> <<"chatcmpl-", now>>, created |-> now,
                  content |-> Content(text, images), out |-> <<>>]
        IN  gen' = [f EXCEPT !.out = <<ChatYield(f, 1, now)>>]
    /\ shot' = NoShot
    /\ UNCHANGED <<lifecycleVars, candVars, rotVars, now, reqVars>>

\* chat.py 287-306: on to the next yield; after [DONE] the generator ends
ChatNext ==
    /\ gen.pc = "running"
    /\ gen.fn = "_stream_response"
    /\ LET k == Len(gen.out) + 1
       IN  gen' = [gen EXCEPT !.out = Append(@, ChatYield(gen, k, now)),
                              !.pc = IF k = 4 THEN "done" ELSE "running"]
    /\ UNCHANGED <<lifecycleVars, candVars, rotVars, now, shot, reqVars>>

\* every event goes out under the default event name
_sse_Unnamed(event, data) == [event |-> "message", data |-> data]

\* responses.py 85-86: f"event: {event}\ndata: {json.dumps(data)}\n\n"
_sse(event, data) == [event |-> event, data |-> data]

\* responses.py 65-78; created_at is read from the clock at every call
_build_response_base(resp_id, model_value, status, output, clock) ==
    [id |-> resp_id, object |-> "response", created_at |-> clock,
     model |-> model_value, output |-> output, status |-> status,
     usage |-> [input_tokens |-> 0, output_tokens |-> 0, total_tokens |-> 0]]

\* responses.py 151-157
CompletedItem(f) ==
    [type |-> "message", id |-> f.msg_id, role |-> "assistant", status |-> "completed",
     content |-> <<[type |-> "output_text", text |-> f.content, annotations |-> <<>>]>>]

\* responses.py 107-171: the k-th event _stream_responses_api yields
ResponsesYield(f, k, clock) ==
    CASE k = 1 -> _sse("response.created",
                       [type |-> "response.created",
                        response |-> _build_response_base(f.resp_id, f.model,
                                                          "in_progress", <<>>, clock)])
      [] k = 2 -> _sse("response.output_item.added",
                       [type |-> "response.output_item.added", output_index |-> 0,
                        item |-> [type |-> "message", id |-> f.msg_id,
                                  role |-> "assistant", status |-> "in_progress",
                                  content |-> <<>>]])
      [] k = 3 -> _sse("response.content_part.added",
                       [type |-> "response.content_part.added", output_index |-> 0,
                        content_index |-> 0,
                        part |-> [type |-> "output_text", text |-> <<>>,
                                  annotations |-> <<>>]])
      [] k = 4 -> _sse("response.output_text.delta",
                       [type |-> "response.output_text.delta", output_index |-> 0,
                        content_index |-> 0, delta |-> f.content])
      [] k = 5 -> _sse("response.output_text.done",
                       [type |-> "response.output_text.done", output_index |-> 0,
                        content_index |-> 0, text |-> f.content])
      [] k = 6 -> _sse("response.output_item.done",
                       [type |-> "response.output_item.done", output_index |-> 0,
                        item |-> CompletedItem(f)])
      [] k = 7 -> _sse("response.completed",
                       [type |-> "response.completed",
                        response |-> WithImages(
                            _build_response_base(f.resp_id, f.model, "completed",
                                                 <<CompletedItem(f)>>, clock),
                            f.images)])

\* responses.py 57-62: "resp_" / "msg_" and 24 hex digits of a fresh uuid4
_make_response_id(u) == <<"resp_">> \o u
_make_message_id(u) == <<"msg_">> \o u

\* responses.py 89-111: the call, up to the first yield
StartResponses ==
    /\ CanStart
    /\ \E text \in Texts, images \in ImageLists, thoughts \in Thoughts,
          u1 \in Uuids, u2 \in Uuids :
        LET f == [pc |-> "running", fn |-> "_stream_responses_api", text |-> text,
                  model |-> ModelName, images |-> images, thoughts |-> thoughts,
                  resp_id |-> _make_response_id(u1), msg_id |-> _make_message_id(u2),
                  created |-> now, content |-> Content(text, images), out |-> <<>>]
        IN  gen' = [f EXCEPT !.out = <<ResponsesYield(f, 1, now)>>]
    /\ shot' = NoShot
    /\ UNCHANGED <<lifecycleVars, candVars, rotVars, now, reqVars>>

\* responses.py 113-171: on to the next yield; after the seventh the
\* generator ends
ResponsesNext ==
    /\ gen.pc = "running"
    /\ gen.fn = "_stream_responses_api"
    /\ LET k == Len(gen.out) + 1
       IN  gen' = [gen EXCEPT !.out = Append(@, ResponsesYield(gen, k, now)),
                              !.pc = IF k = 7 THEN "done" ELSE "running"]
    /\ UNCHANGED <<lifecycleVars, candVars, rotVars, now, shot, reqVars>>

\* the single-shot message takes the text as it is
SingleShotContent_TextOnly(text, images) == text

\* chat.py 233-239: the message content of the single-shot response
SingleShotContent(text, images) ==
    IF images = <<>> THEN text
    ELSE Strip(text \o <<"\n", "\n">> \o MdLinks(images), Whitespace)

\* chat.py 231-265
_to_openai_format(response_text, model, images, stream, clock) ==
    WithImages(
        [id |-> <<"chatcmpl-", clock>>,
         object |-> IF stream THEN "chat.completion.chunk" ELSE "chat.completion",
         created |-> clock, model |-> model,
         choices |-> <<[index |-> 0,
                        message |-> [role |-> "assistant",
                                     content |-> SingleShotContent(response_text, images)],
                        finish_reason |-> <<"stop">>]>>,
         usage |-> [prompt_tokens |-> 0, completion_tokens |-> 0, total_tokens |-> 0]],
        images)

\* responses.py 290-291: the thoughts ride along when there are any
WithThoughts(d, thoughts) ==
    IF thoughts \notin {None, <<>>} THEN d @@ ("thoughts" :> thoughts) ELSE d

\* responses.py 270-292: the non-streaming response of create_response
ResponsesSingleShot(text, model, images, thoughts, u1, u2, clock) ==
    LET content_text == IF images = <<>> THEN text
                        ELSE Strip(text \o <<"\n", "\n">> \o MdLinks(images),
                                   Whitespace)
        item == [type |-> "message", id |-> _make_message_id(u2), role |-> "assistant",
                 status |-> "completed",
                 content |-> <<[type |-> "output_text", text |-> content_text,
                                annotations |-> <<>>]>>]
    IN  WithThoughts(
            WithImages(_build_response_base(_make_response_id(u1), model, "completed",
                                            <<item>>, clock),
                       images),
            thoughts)

\* chat.py 391, responses.py 270-292: the same upstream response answered
\* without streaming
BuildSingleShot ==
    /\ gen.pc = "done"
    /\ \E u1 \in Uuids, u2 \in Uuids :
        shot' = [fn |-> gen.fn, text |-> gen.text, images |-> gen.images,
                 thoughts |-> gen.thoughts,
                 result |-> IF gen.fn = "_stream_response"
                            THEN _to_openai_format(gen.text, gen.model, gen.images,
                                                   FALSE, now)
                            ELSE ResponsesSingleShot(gen.text, gen.model, gen.images,
                                                     gen.thoughts, u1, u2, now)]
    /\ UNCHANGED <<lifecycleVars, candVars, rotVars, gen, now, reqVars>>

\* a second passes
ClockTick ==
    /\ now < MaxClock
    /\ now' = now + 1
    /\ UNCHANGED <<lifecycleVars, candVars, rotVars, gen, shot, reqVars>>

InitStream ==
    /\ client = NoSession
    /\ initError = NoError
    /\ errorCode = NoCode
    /\ config = [enabled |-> TRUE, proxy |-> Empty, psid |-> None, psidts |-> None,
                 model |-> M0]
    /\ environ = [psid |-> None, psidts |-> None, disableFallback |-> None]
    /\ browser = None
    /\ sessions = <<>>
    /\ call = [p \in Callers |-> IdleFrame]
    /\ ret = [p \in Callers |-> NoRet]
    /\ ncalls = 0
    /\ phase = "boot"
    /\ lastGot = [kind |-> "none"]
    /\ candIn = NoCandIn
    /\ candOut = NotBuilt
    /\ Unstarted
    /\ NoRequests

NextStream ==
    \/ StartChat
    \/ ChatNext
    \/ StartResponses
    \/ ResponsesNext
    \/ BuildSingleShot
    \/ ClockTick

SpecStream == InitStream /\ [][NextStream]_vars

(***************************************************************************)
(* Model names: chat.py 32-91.                                             *)
(***************************************************************************)
\* request.py: the values of the GeminiModels enum
PRO == <<"g", "e", "m", "i", "n", "i", "-", "3", ".", "0", "-", "p", "r", "o">>
FLASH == <<"g", "e", "m", "i", "n", "i", "-", "3", ".", "0", "-", "f", "l", "a", "s", "h">>
FLASH_THINKING == <<"g", "e", "m", "i", "n", "i", "-", "3", ".", "0", "-", "f", "l", "a", "s", "h", "-", "t", "h", "i", "n", "k", "i", "n", "g">>
GeminiModels == {PRO, FLASH, FLASH_THINKING}

\* chat.py 32-54
_MODEL_ALIASES ==
    (<<"g", "e", "m", "i", "n", "i", "-", "3", ".", "0", "-", "p", "r", "o">> :> PRO) @@
    (<<"g", "e", "m", "i", "n", "i", "-", "3", ".", "0", "-", "f", "l", "a", "s", "h">> :> FLASH) @@
    (<<"g", "e", "m", "i", "n", "i", "-", "3", ".", "0", "-", "f", "l", "a", "s", "h", "-", "t", "h", "i", "n", "k", "i", "n", "g">> :> FLASH_THINKING) @@
    (<<"g", "e", "m", "i", "n", "i", "-", "p", "r", "o">> :> PRO) @@
    (<<"g", "e", "m", "i", "n", "i", "-", "u", "l", "t", "r", "a">> :> PRO) @@
    (<<"g", "e", "m", "i", "n", "i", "-", "f", "l", "a", "s", "h">> :> FLASH) @@
    (<<"g", "e", "m", "i", "n", "i", "-", "1", ".", "0", "-", "p", "r", "o">> :> PRO) @@
    (<<"g", "e", "m", "i", "n", "i", "-", "1", ".", "5", "-", "p", "r", "o">> :> PRO) @@
    (<<"g", "e", "m", "i", "n", "i", "-", "1", ".", "5", "-", "p", "r", "o", "-", "l", "a", "t", "e", "s", "t">> :> PRO) @@
    (<<"g", "e", "m", "i", "n", "i", "-", "1", ".", "5", "-", "f", "l", "a", "s", "h">> :> FLASH) @@
    (<<"g", "e", "m", "i", "n", "i", "-", "1", ".", "5", "-", "f", "l", "a", "s", "h", "-", "l", "a", "t", "e", "s", "t">> :> FLASH) @@
    (<<"g", "e", "m", "i", "n", "i", "-", "2", ".", "0", "-", "f", "l", "a", "s", "h">> :> FLASH) @@
    (<<"g", "e", "m", "i", "n", "i", "-", "2", ".", "0", "-", "f", "l", "a", "s", "h", "-", "e", "x", "p">> :> FLASH) @@
    (<<"g", "e", "m", "i", "n", "i", "-", "2", ".", "0", "-", "p", "r", "o">> :> PRO) @@
    (<<"g", "e", "m", "i", "n", "i", "-", "2", ".", "5", "-", "p", "r", "o">> :> PRO) @@
    (<<"g", "e", "m", "i", "n", "i", "-", "2", ".", "5", "-", "f", "l", "a", "s", "h">> :> FLASH) @@
    (<<"g", "e", "m", "i", "n", "i", "-", "3", "-", "p", "r", "o">> :> PRO) @@
    (<<"g", "e", "m", "i", "n", "i", "-", "3", "-", "f", "l", "a", "s", "h">> :> FLASH) @@
    (<<"g", "e", "m", "i", "n", "i", "-", "3", "-", "f", "l", "a", "s", "h", "-", "t", "h", "i", "n", "k", "i", "n", "g">> :> FLASH_THINKING)

\* `sub in s`
Contains(s, sub) ==
    \E i \in 1..(Len(s) - Len(sub) + 1) : SubSeq(s, i, i + Len(sub) - 1) = sub

Thinking == <<"t", "h", "i", "n", "k", "i", "n", "g">>
Pro == <<"p", "r", "o">>
Flash == <<"f", "l", "a", "s", "h">>

\* "pro" is looked for before "thinking"
_resolve_model_ProFirst(model_str) ==
    IF model_str = None \/ model_str = <<>> THEN FLASH
    ELSE LET lower == Lower(Strip(model_str, Whitespace))
         IN  IF lower \in DOMAIN _MODEL_ALIASES THEN _MODEL_ALIASES[lower]
             ELSE IF Contains(lower, Pro) THEN PRO
             ELSE IF Contains(lower, Thinking) THEN FLASH_THINKING
             ELSE FLASH

\* chat.py 57-91
_resolve_model(model_str) ==
    IF model_str = None \/ model_str = <<>> THEN FLASH
    ELSE LET lower == Lower(Strip(model_str, Whitespace))
         IN  IF lower \in DOMAIN _MODEL_ALIASES THEN _MODEL_ALIASES[lower]
             ELSE IF Contains(lower, Thinking) THEN FLASH_THINKING
             ELSE IF Contains(lower, Pro) THEN PRO
             ELSE IF Contains(lower, Flash) THEN FLASH
             ELSE FLASH

\* str.upper, on the names used here
Upper(s) ==
    [i \in 1..Len(s) |->
        IF \E k \in 1..26 : LowerCase[k] = s[i]
        THEN UpperCase[CHOOSE k \in 1..26 : LowerCase[k] = s[i]]
        ELSE s[i]]

\* the names a client may send that are not alias keys
OtherNames ==
    {<<>>,
     <<" ", " ", " ">>,
     <<"g", "p", "t", "-", "4">>,
     <<"g", "e", "m", "i", "n", "i", "-", "2", ".", "5", "-", "p", "r", "o", "-", "t", "h", "i", "n", "k", "i", "n", "g">>,
     <<"i", "m", "p", "r", "o", "v", "e">>,
     <<"g", "e", "m", "i", "n", "i", "-", "4", "-", "f", "l", "a", "s", "h">>,
     <<"t", "h", "i", "n", "k", "i", "n", "g">>,
     <<"m", "y", "-", "p", "r", "o", "-", "t", "h", "i", "n", "k", "i", "n", "g", "-", "f", "l", "a", "s", "h">>,
     <<"g", "e", "m", "i", "n", "i", "-", "u", "l", "t", "r", "a", "-", "2">>,
     <<"g", "e", "m", "i", "n", "i", "-", "e", "x", "p">>}

\* request.model: absent, or a name as it is, in capitals, or with white space
\* around it
ModelStrings ==
    {None} \cup
    UNION {{m, Upper(m), <<" ">> \o m, m \o <<"\n">>, <<"\t">> \o Upper(m) \o <<" ">>} :
           m \in DOMAIN _MODEL_ALIASES \cup OtherNames}

\* every older variable at rest
Quiet ==
    /\ client = NoSession
    /\ initError = NoError
    /\ errorCode = NoCode
    /\ config = [enabled |-> TRUE, proxy |-> Empty, psid |-> None, psidts |-> None,
                 model |-> M0]
    /\ environ = [psid |-> None, psidts |-> None, disableFallback |-> None]
    /\ browser = None
    /\ sessions = <<>>
    /\ call = [p \in Callers |-> IdleFrame]
    /\ ret = [p \in Callers |-> NoRet]
    /\ ncalls = 0
    /\ phase = "boot"
    /\ lastGot = [kind |-> "none"]
    /\ candIn = NoCandIn
    /\ candOut = NotBuilt
    /\ Unstarted

\* the one session built so far, after init() returned and after it raised
ReadySession == [psid |-> A, psidts |-> A, proxy |-> None, state |-> "ready"]
FailedSession == [ReadySession EXCEPT !.state = "failed"]

\* the application serves after the latest initialization installed session
\* 1 (lines 85-87) or ended in a network error or another exception (92-103)
ClientStates ==
    {[sid |-> 1, err |-> NoError, code |-> NoCode, sessions |-> <<ReadySession>>],
     [sid |-> NoSession, err |-> <<>>, code |-> "network",
      sessions |-> <<FailedSession>>],
     [sid |-> NoSession, err |-> <<"Exception", 1>>, code |-> "unknown",
      sessions |-> <<FailedSession>>]}

\* the application serves in client state st
Serving(st) ==
    /\ client = st.sid
    /\ initError = st.err
    /\ errorCode = st.code
    /\ config = [enabled |-> TRUE, proxy |-> Empty, psid |-> A, psidts |-> A,
                 model |-> M0]
    /\ environ = [psid |-> None, psidts |-> None, disableFallback |-> None]
    /\ browser = None
    /\ sessions = st.sessions
    /\ call = [p \in Callers |-> IdleFrame]
    /\ ret = [p \in Callers |-> NoRet]
    /\ ncalls = 0
    /\ phase = "serving"
    /\ lastGot = [kind |-> "none"]
    /\ candIn = NoCandIn
    /\ candOut = NotBuilt
    /\ Unstarted

\* a session is installed
Installed == Serving(CHOOSE st \in ClientStates : st.sid # NoSession)

\* the rotation loop's task, with a session installed
InitPersist ==
    /\ Installed
    /\ NoRequests

NextPersist ==
    \/ StartPersister
    \/ StopPersister
    \/ LifespanShutdown
    \/ \E i \in 1..MaxTasks : CancelDelivered(i)
    \/ Tick
    \/ Rotate

SpecPersist == InitPersist /\ [][NextPersist]_vars

\* the event loop runs every task that is ready: a task cancel() was called
\* on is resumed with its CancelledError
SpecPersistFair ==
    /\ InitPersist
    /\ [][NextPersist]_vars
    /\ \A i \in 1..MaxTasks : WF_vars(CancelDelivered(i))

InitModel ==
    /\ Quiet
    /\ \E m \in ModelStrings : modelCall = [pc |-> "called", model_str |-> m]
    /\ notifier = NoNotifier
    /\ fs = NoFiles
    /\ req = [r \in {} |-> 0]
    /\ ms = 0
    /\ running = "none"
    /\ cleanupCall = NoCall
    /\ fileCall = NoCall

\* chat.py 337, responses.py 197: model = _resolve_model(request.model)
ResolveModel ==
    /\ modelCall.pc = "called"
    /\ modelCall' = [pc |-> "returned", model_str |-> modelCall.model_str,
                     value |-> _resolve_model(modelCall.model_str)]
    /\ UNCHANGED <<lifecycleVars, candVars, rotVars, genVars, notifier, fs, req, ms, running,
                   cleanupCall, fileCall>>

NextModel == ResolveModel

SpecModel == InitModel /\ [][NextModel]_vars

(***************************************************************************)
(* Requests and their temp files: chat.py 106-182 and 313-412,            *)
(* responses.py 178-308, image_utils.py 22-96 and 170-178.                 *)
(***************************************************************************)
\* the last millisecond the clock of a run reaches
MaxMs == 2

Reqs == {"r1", "r2"}
NoReq == "none"

\* a path is the tuple of its components, a component the tuple of its
\* characters; NoPath is what `if p` takes for false
NoPath == <<>>
DotDot == <<".", ".">>
Dot == <<".">>
\* image_utils.py 22: the directory made at import
_TEMP_DIR == <<<<"t", "m", "p">>>>
\* image_utils.py 37-40
get_temp_dir == _TEMP_DIR
\* a directory next to the temp root
Outside == <<<<"e", "t", "c">>>>
Dirs == {_TEMP_DIR, Outside}

RECURSIVE Resolve(_)
\* where the operating system finds a path: ".." steps up
Resolve(p) ==
    IF p = <<>> THEN <<>>
    ELSE LET front == Resolve(SubSeq(p, 1, Len(p) - 1))
             last == p[Len(p)]
         IN  IF last = DotDot
             THEN IF front = <<>> THEN <<>> ELSE SubSeq(front, 1, Len(front) - 1)
             ELSE Append(front, last)

\* Path.exists
Exists(files, p) == Resolve(p) \in DOMAIN files \cup Dirs

\* PurePath.is_relative_to: a comparison of the components as written
is_relative_to(p, d) == Len(p) >= Len(d) /\ SubSeq(p, 1, Len(d)) = d

\* Path.unlink: removes a file; on a directory it raises and removes nothing
UnlinkRaises(files, p) == Resolve(p) \notin DOMAIN files
Unlink(files, p) == [q \in DOMAIN files \ {Resolve(p)} |-> files[q]]

RECURSIVE cleanup_temp_files(_, _)
\* image_utils.py 170-178: the files that are left
cleanup_temp_files(files, paths) ==
    IF paths = <<>> THEN files
    ELSE LET p == Head(paths)
             left == IF p # NoPath /\ Exists(files, p) /\ is_relative_to(p, _TEMP_DIR)
                        /\ ~UnlinkRaises(files, p)
                     THEN Unlink(files, p)
                     ELSE files
         IN  cleanup_temp_files(left, Tail(paths))

Digits == <<"0", "1", "2", "3", "4", "5", "6", "7", "8", "9">>
B64 == <<"b", "6", "4">>
Dl == <<"d", "l">>
Png == <<".", "p", "n", "g">>
Bin == <<".", "b", "i", "n">>
Jpg == <<".", "j", "p", "g">>

\* image_utils.py 43-45: prefix, "_", the time in milliseconds, the extension
_unique_name(prefix, ext, t) == prefix \o <<"_", Digits[t + 1]>> \o ext

\* Path.write_bytes: makes the file or replaces what it held
WriteBytes(files, dest, who) == (dest :> [by |-> who]) @@ files

\* whatever the payload holds is written
decode_base64_to_tempfile_Lenient(files, uri, t, who) ==
    LET dest == Append(get_temp_dir, _unique_name(B64, Png, t))
    IN  [raised |-> FALSE, path |-> dest, files |-> WriteBytes(files, dest, who)]

\* image_utils.py 51-70: ValueError for a URI the pattern does not match or a
\* payload base64 cannot decode; otherwise the file is written and its path
\* returned
decode_base64_to_tempfile(files, uri, t, who) ==
    IF ~uri.wellformed \/ ~uri.decodable
    THEN [raised |-> TRUE, path |-> NoPath, files |-> files]
    ELSE LET ext == IF uri.mime = "image/png" THEN Png ELSE Bin
             dest == Append(get_temp_dir, _unique_name(B64, ext, t))
         IN  [raised |-> FALSE, path |-> dest, files |-> WriteBytes(files, dest, who)]

\* image_utils.py 76-96: None when the download failed or timed out
download_to_tempfile(files, ok, t, who) ==
    IF ~ok THEN [path |-> NoPath, files |-> files]
    ELSE LET dest == Append(get_temp_dir, _unique_name(Dl, Jpg, t))
         IN  [path |-> dest, files |-> WriteBytes(files, dest, who)]

\* the parts of a content list
NotADict == [type |-> "<not a dict>"]
Text(t) == [type |-> "text", text |-> t]
InputText(t) == [type |-> "input_text", text |-> t]
Image(u) == [type |-> "image_url", url |-> u]
InputImage(u) == [type |-> "input_image", url |-> u]
Audio == [type |-> "input_audio"]

\* the URLs of image parts, by what the code looks at
DataPng == [scheme |-> "data", wellformed |-> TRUE, decodable |-> TRUE,
            mime |-> "image/png"]
DataOther == [scheme |-> "data", wellformed |-> TRUE, decodable |-> TRUE,
              mime |-> "image/x"]
DataNoPrefix == [scheme |-> "data", wellformed |-> FALSE, decodable |-> TRUE,
                 mime |-> "image/png"]
DataBadPayload == [scheme |-> "data", wellformed |-> TRUE, decodable |-> FALSE,
                   mime |-> "image/png"]
Up == <<"u", "p">>
FileUp == [scheme |-> "file", id |-> Up]
FileMissing == [scheme |-> "file", id |-> <<"n", "o">>]
FileSlash == [scheme |-> "file", id |-> <<"a", "/", "u", "p">>]
FileBackslash == [scheme |-> "file", id |-> <<"a", "\\", "u", "p">>]
FileDotDot == [scheme |-> "file", id |-> <<".", ".", "u", "p">>]
FileEmpty == [scheme |-> "file", id |-> <<>>]
Http == [scheme |-> "http"]
Https == [scheme |-> "https"]
Ftp == [scheme |-> "ftp"]
EmptyUrl == [scheme |-> ""]

\* chat.py 167, files.py 86 and 104: the identifier names a path of its own
GuardRejects(file_id) ==
    \/ Contains(file_id, <<"/">>)
    \/ Contains(file_id, <<"\\">>)
    \/ Contains(file_id, DotDot)

\* get_temp_dir() / file_id, for an identifier without a separator: an empty
\* identifier and "." add no component
PathJoin(dir, file_id) == IF file_id \in {<<>>, Dot} THEN dir ELSE Append(dir, file_id)

\* a message content: a string, a list of parts, or None
Str(t) == [kind |-> "str", value |-> t]
List(ps) == [kind |-> "list", parts |-> ps]
NoContent == [kind |-> "none"]
PartsOf(content) == IF content.kind = "list" THEN content.parts ELSE <<>>
Msg(role, content) == [type |-> "message", role |-> role, content |-> content]
\* an item of `input` that is no message, and a message that names no role
FunctionCall == [type |-> "function_call", name |-> <<"f">>]
NoRole(content) == [type |-> "message", content |-> content]

\* chat.py 346-347 takes every message; responses.py 216-222 takes the items
\* of type "message"
IsMessageItem(f, m) == f.endpoint = "chat" \/ m.type = "message"

\* msg.get("role", "user")
RoleOf(m) == IF "role" \in DOMAIN m THEN m.role ELSE "user"

RECURSIVE JoinSpaces(_)
\* " ".join(text_parts)
JoinSpaces(ts) ==
    IF ts = <<>> THEN <<>>
    ELSE IF Len(ts) = 1 THEN ts[1]
    ELSE ts[1] \o <<" ">> \o JoinSpaces(Tail(ts))

\* an empty text still takes its place in the list
AddText_KeepEmpty(f, txt) == [f EXCEPT !.text_parts = Append(@, txt)]

\* chat.py 140-143: the text of a text part, unless it is empty
AddText(f, txt) == IF txt # <<>> THEN [f EXCEPT !.text_parts = Append(@, txt)] ELSE f

\* chat.py 159, 170, 180: file_paths.append; `made` keeps, for every path, the
\* part it came from and whether decoding or downloading created it
AddFile(f, path, created) ==
    IF path = NoPath THEN f
    ELSE [f EXCEPT !.file_paths = Append(@, path),
                   !.made = Append(@, [path |-> path, mi |-> f.mi, k |-> f.k,
                                       created |-> created])]

\* chat.py 133-180: one turn of the loop over the parts, up to the download
\* that has to be awaited
ExtractOne(f, files, t, r) ==
    LET part == PartsOf(f.messages[f.mi].content)[f.k]
        on == [f EXCEPT !.k = f.k + 1]
        skip == [f |-> on, files |-> files]
    IN  IF part = NotADict THEN skip
        ELSE IF part.type \in {"text", "input_text"}
        THEN [f |-> AddText(on, part.text), files |-> files]
        ELSE IF part.type \in {"image_url", "input_image"}
        THEN LET url == part.url
             IN  IF url.scheme = "" THEN skip
                 ELSE IF url.scheme = "data"
                 THEN LET d == decode_base64_to_tempfile(files, url, t, <<r, f.mi, f.k>>)
                      IN  IF d.raised THEN skip
                          ELSE [f |-> [AddFile(f, d.path, TRUE) EXCEPT !.k = f.k + 1],
                                files |-> d.files]
                 ELSE IF url.scheme = "file"
                 THEN IF ~GuardRejects(url.id)
                      THEN LET candidate == PathJoin(get_temp_dir, url.id)
                           IN  IF Exists(files, candidate)
                               THEN [f |-> [AddFile(f, candidate, FALSE)
                                               EXCEPT !.k = f.k + 1],
                                     files |-> files]
                               ELSE skip
                      ELSE skip
                 ELSE IF url.scheme \in {"http", "https"}
                 THEN [f |-> [f EXCEPT !.pc = "download"], files |-> files]
                 ELSE skip
        ELSE skip

\* chat.py 124-128, 182: what _extract_multimodal_content returns
Extracted(f) ==
    LET content == f.messages[f.mi].content
    IN  [text |-> IF content.kind = "str" THEN content.value
                  ELSE IF content.kind = "none" THEN <<>>
                  ELSE JoinSpaces(f.text_parts),
         files |-> f.file_paths]

\* the frame of a handler that was not called
NoFrame == [pc |-> "none"]
\* the upstream call has not come back
NoOutcome == [kind |-> "none"]

\* /gemini and /gemini-chat hand the request's message to the upstream as it is
Direct == {"gemini", "gemini-chat"}

ManagerMsg == <<"Session manager is not initialized.">>

\* what get_gemini_chat_manager() may give: a manager or none
get_gemini_chat_manager == BOOLEAN

\* only the session manager is looked at
Unavailable_ManagerOnly(f, manager) ==
    IF f.endpoint = "gemini-chat" /\ ~manager THEN ManagerMsg ELSE None

\* chat.py 326-329, responses.py 192-195, gemini.py 35-38 and 77-85: the
\* detail of the 503 the handler raises before anything else, None when the
\* handler goes on
Unavailable(f, manager) ==
    IF client = NoSession THEN ErrorDetail(initError)
    ELSE IF f.endpoint = "gemini-chat" /\ ~manager THEN ManagerMsg
    ELSE None

\* the frame of a handler about to run for a request
NewFrame(input) ==
    [pc |-> "new", endpoint |-> input.endpoint, stream |-> input.stream,
     instructions |-> input.instructions, messages |-> input.messages,
     mi |-> 1, k |-> 1, text_parts |-> <<>>, file_paths |-> <<>>, made |-> <<>>,
     dl |-> <<>>,
     extracted |-> <<>>, conversation_parts |-> <<>>, all_file_paths |-> <<>>,
     temp_file_paths |-> <<>>, status |-> 0, emitted |-> 0,
     detail |-> None, calls |-> 0, notified |-> <<>>, error |-> NoOutcome]

\* chat.py 326-344, responses.py 192-214: up to the loop over the messages;
\* gemini.py 35-47 and 77-88: up to the awaited upstream call
ReqStart(r) ==
    /\ running = NoReq
    /\ req[r].pc = "new"
    /\ \E manager \in get_gemini_chat_manager :
       LET f == req[r]
           down == Unavailable(f, manager)
       IN  IF down # None
           THEN /\ req' = [req EXCEPT ![r] = [f EXCEPT !.pc = "ended", !.status = 503,
                                                        !.detail = down]]
                /\ running' = NoReq
           ELSE IF f.endpoint \in Direct
           THEN /\ req' = [req EXCEPT ![r] = [f EXCEPT !.pc = "generate", !.calls = @ + 1]]
                /\ running' = NoReq
           ELSE IF f.messages = <<>> /\ ~f.instructions
           THEN /\ req' = [req EXCEPT ![r] = [f EXCEPT !.pc = "ended", !.status = 400]]
                /\ running' = NoReq
           ELSE /\ req' = [req EXCEPT ![r] =
                             [f EXCEPT !.pc = "extract",
                                       !.conversation_parts =
                                           IF f.instructions
                                           THEN <<<<"System", <<"b", "e">>>>>>
                                           ELSE <<>>]]
                /\ running' = r
    /\ UNCHANGED <<lifecycleVars, candVars, rotVars, genVars, callVars, fs, ms>>

\* chat.py 133-180: the next part of the message at hand
ExtractPart(r) ==
    /\ running = r
    /\ req[r].pc = "extract"
    /\ req[r].mi <= Len(req[r].messages)
    /\ IsMessageItem(req[r], req[r].messages[req[r].mi])
    /\ req[r].k <= Len(PartsOf(req[r].messages[req[r].mi].content))
    /\ LET e == ExtractOne(req[r], fs, ms, r)
       IN  /\ req' = [req EXCEPT ![r] = e.f]
           /\ fs' = e.files
           /\ running' = IF e.f.pc = "download" THEN NoReq ELSE r
    /\ UNCHANGED <<lifecycleVars, candVars, rotVars, genVars, callVars, ms>>

\* chat.py 178-180, image_utils.py 76-96: the awaited download comes back
DownloadReturn(r) ==
    /\ running = NoReq
    /\ req[r].pc = "download"
    /\ \E ok \in BOOLEAN :
        LET f == req[r]
            d == download_to_tempfile(fs, ok, ms, <<r, f.mi, f.k>>)
        IN  /\ req' = [req EXCEPT ![r] =
                         [AddFile(f, d.path, TRUE)
                             EXCEPT !.pc = "extract", !.k = f.k + 1,
                                    !.dl = Append(@, [mi |-> f.mi, k |-> f.k,
                                                      ok |-> ok])]]
            /\ fs' = d.files
    /\ running' = r
    /\ UNCHANGED <<lifecycleVars, candVars, rotVars, genVars, callVars, ms>>

\* a role without a name of its own is taken as the user's
Prompted_AnyRole(f, role, text) ==
    LET name == IF role = "assistant" THEN "Assistant"
                ELSE IF role = "system" \/ (role = "developer" /\ f.endpoint = "responses")
                THEN "System"
                ELSE "User"
    IN  IF text = <<>> THEN f.conversation_parts
        ELSE Append(f.conversation_parts, <<name, text>>)

\* the text goes to the prompt under the role's name, if the role has one
Prompted(f, role, text) ==
    LET name == IF role = "user" THEN "User"
                ELSE IF role = "assistant" THEN "Assistant"
                ELSE IF role = "system" \/ (role = "developer" /\ f.endpoint = "responses")
                THEN "System"
                ELSE "none"
    IN  IF text = <<>> \/ name = "none" THEN f.conversation_parts
        ELSE Append(f.conversation_parts, <<name, text>>)

\* chat.py 182 and 352-366, responses.py 230-244: the extraction of a message
\* returns and the handler takes its text and files
MessageDone(r) ==
    /\ running = r
    /\ req[r].pc = "extract"
    /\ req[r].mi <= Len(req[r].messages)
    /\ IsMessageItem(req[r], req[r].messages[req[r].mi])
    /\ req[r].k > Len(PartsOf(req[r].messages[req[r].mi].content))
    /\ LET f == req[r]
           x == Extracted(f)
           temps == SelectSeq(x.files, LAMBDA fp : is_relative_to(fp, get_temp_dir))
       IN  req' = [req EXCEPT ![r] =
                     [f EXCEPT !.extracted = Append(@, x),
                               !.temp_file_paths = @ \o temps,
                               !.all_file_paths = @ \o x.files,
                               !.conversation_parts =
                                   Prompted(f, RoleOf(f.messages[f.mi]), x.text),
                               !.mi = f.mi + 1, !.k = 1,
                               !.text_parts = <<>>, !.file_paths = <<>>]]
    /\ UNCHANGED <<lifecycleVars, candVars, rotVars, genVars, callVars, fs, ms, running>>

\* responses.py 216-222: an item that is no message is passed over
SkipItem(r) ==
    /\ running = r
    /\ req[r].pc = "extract"
    /\ req[r].mi <= Len(req[r].messages)
    /\ ~IsMessageItem(req[r], req[r].messages[req[r].mi])
    /\ req' = [req EXCEPT ![r].mi = @ + 1]
    /\ UNCHANGED <<lifecycleVars, candVars, rotVars, genVars, callVars, fs, ms, running>>

\* chat.py 368-380, responses.py 246-257: after the loop, 400 when no message
\* gave a text, else the upstream call is awaited
ExtractionDone(r) ==
    /\ running = r
    /\ req[r].pc = "extract"
    /\ req[r].mi > Len(req[r].messages)
    /\ req' = [req EXCEPT ![r] =
                 IF req[r].conversation_parts = <<>>
                 THEN [req[r] EXCEPT !.pc = "ended", !.status = 400]
                 ELSE [req[r] EXCEPT !.pc = "generate", !.calls = @ + 1]]
    /\ running' = NoReq
    /\ UNCHANGED <<lifecycleVars, candVars, rotVars, genVars, callVars, fs, ms>>

Answer == [kind |-> "ok"]
Raised(text) == [kind |-> "raised", text |-> text]

\* str(e) of what the upstream call may raise; a TimeoutError() has no text
ErrorTexts ==
    {<<"A", "u", "t", "h">>, <<"c", "o", "o", "k", "i", "e">>, <<"s", "t", "a", "l", "l", "e", "d">>,
     <<"p", "a", "r", "s", "e", " ", "a", "u", "t", "h">>,
     <<"b", "o", "o", "m">>, <<>>}

\* what the upstream call may do: answer, or raise
Upstream == {Answer} \cup {Raised(t) : t \in ErrorTexts}

\* chat.py 394-397, responses.py 294-296, gemini.py 58 and 101
IsAuth(text) ==
    Contains(Lower(text), <<"a", "u", "t", "h">>) \/ Contains(Lower(text), <<"c", "o", "o", "k", "i", "e">>)

\* chat.py 401, responses.py 299
IsTransient(text) ==
    \/ Contains(Lower(text), <<"z", "o", "m", "b", "i", "e">>)
    \/ Contains(Lower(text), <<"p", "a", "r", "s", "e">>)
    \/ Contains(Lower(text), <<"s", "t", "a", "l", "l", "e", "d">>)

\* every failure is an unexpected one
StatusOf_AllUnexpected(endpoint, outcome) ==
    IF outcome = Answer THEN 200 ELSE 500

\* chat.py 393-408, responses.py 293-305, gemini.py 56-65 and 99-108: the
\* status the handler answers with
StatusOf(endpoint, outcome) ==
    IF outcome = Answer THEN 200
    ELSE IF endpoint \in Direct THEN 500
    ELSE IF IsAuth(outcome.text) THEN 401
    ELSE IF IsTransient(outcome.text) THEN 503
    ELSE 500

\* chat.py 396-407, gemini.py 57-64 and 100-107: the categories the handler
\* passes to notify_error; responses.py 293-305 makes no such call
NotifiedOf(endpoint, outcome) ==
    IF outcome = Answer \/ endpoint = "responses" THEN <<>>
    ELSE IF IsAuth(outcome.text) THEN <<"auth">>
    ELSE IF endpoint = "chat" /\ IsTransient(outcome.text) THEN <<"503">>
    ELSE <<"500">>

\* chat.py 374-412, responses.py 252-308, gemini.py 46-65 and 87-108: the
\* upstream call comes back and the handler returns or raises; the finally
\* clause of chat.py and responses.py runs on the way out
GenerateReturn(r) ==
    /\ running = NoReq
    /\ req[r].pc = "generate"
    /\ \E outcome \in Upstream :
        req' = [req EXCEPT ![r] =
                  [req[r] EXCEPT !.pc = IF outcome = Answer /\ req[r].stream
                                        THEN "streaming" ELSE "ended",
                                 !.status = StatusOf(req[r].endpoint, outcome),
                                 !.notified = @ \o NotifiedOf(req[r].endpoint, outcome),
                                 !.error = outcome]]
    /\ fs' = cleanup_temp_files(fs, req[r].temp_file_paths)
    /\ UNCHANGED <<lifecycleVars, candVars, rotVars, genVars, callVars, ms, running>>

\* chat.py 286-306: four items; responses.py 107-171: seven events
StreamLength(f) == IF f.endpoint = "chat" THEN 4 ELSE 7

\* the server takes the next item of the StreamingResponse the handler returned
StreamEmit(r) ==
    /\ running = NoReq
    /\ req[r].pc = "streaming"
    /\ req' = [req EXCEPT ![r] =
                 [req[r] EXCEPT !.emitted = @ + 1,
                                !.pc = IF req[r].emitted + 1 = StreamLength(req[r])
                                       THEN "ended" ELSE "streaming"]]
    /\ UNCHANGED <<lifecycleVars, candVars, rotVars, genVars, callVars, fs, ms, running>>

\* a millisecond passes
MsTick ==
    /\ ms < MaxMs
    /\ ms' = ms + 1
    /\ UNCHANGED <<lifecycleVars, candVars, rotVars, genVars, callVars, fs, req, running>>

\* the upload store holds one uploaded file
Uploaded == Append(_TEMP_DIR, Up) :> [by |-> <<"upload", 0, 0>>]

TwoImages == List(<<Text(<<"h", "i">>), Image(DataPng), InputImage(DataPng)>>)
ImageOnly == List(<<Image(DataPng)>>)
Downloaded == List(<<InputText(<<"y", "o">>), Image(Http), Image(FileUp)>>)

\* the requests of a run: both endpoints, streaming or not
ReqInputs ==
    {[endpoint |-> ep, stream |-> st, instructions |-> FALSE,
      messages |-> <<Msg("user", c)>>] :
        ep \in {"chat", "responses"}, st \in BOOLEAN,
        c \in {TwoImages, ImageOnly, Downloaded}}

InitReq ==
    /\ Installed
    /\ modelCall = NoModelCall
    /\ notifier = NoNotifier
    /\ cleanupCall = NoCall
    /\ fileCall = NoCall
    /\ fs = Uploaded
    /\ ms = 0
    /\ running = NoReq
    /\ \E i1 \in ReqInputs, i2 \in ReqInputs :
        /\ i2.endpoint = "chat"
        /\ req = [r \in Reqs |-> IF r = "r1" THEN NewFrame(i1) ELSE NewFrame(i2)]

NextReq ==
    \/ \E r \in Reqs :
        \/ ReqStart(r)
        \/ ExtractPart(r)
        \/ DownloadReturn(r)
        \/ MessageDone(r)
        \/ ExtractionDone(r)
        \/ GenerateReturn(r)
        \/ StreamEmit(r)
    \/ MsTick

SpecReq == InitReq /\ [][NextReq]_vars

(***************************************************************************)
(* One request to each of the four generation endpoints, in every client   *)
(* state.                                                                  *)
(***************************************************************************)
MaxItems == 2

Hi == <<"h", "i">>

\* the messages and items a client may send
Items ==
    {Msg("user", Str(Hi)), Msg("assistant", Str(Hi)), Msg("system", Str(Hi)),
     Msg("developer", Str(Hi)), Msg("tool", Str(Hi)), NoRole(Str(Hi)),
     Msg("user", Str(<<>>)), Msg("user", ImageOnly), Msg("user", NoContent),
     Msg("user", List(<<Text(<<>>)>>)), Msg("user", List(<<Image(DataPng), Text(Hi)>>)),
     FunctionCall}

ItemLists == UNION {[1..n -> Items] : n \in 0..MaxItems}

GenInputs ==
    {[endpoint |-> "chat", stream |-> st, instructions |-> FALSE, messages |-> ms_] :
        st \in BOOLEAN, ms_ \in {l \in ItemLists : \A i \in 1..Len(l) : l[i] # FunctionCall}}
    \cup {[endpoint |-> "responses", stream |-> FALSE, instructions |-> ins,
           messages |-> ms_] : ins \in BOOLEAN, ms_ \in ItemLists}
    \cup {[endpoint |-> ep, stream |-> FALSE, instructions |-> FALSE, messages |-> <<>>] :
           ep \in Direct}

InitGen ==
    /\ \E st \in ClientStates : Serving(st)
    /\ modelCall = NoModelCall
    /\ notifier = NoNotifier
    /\ cleanupCall = NoCall
    /\ fileCall = NoCall
    /\ fs = Uploaded
    /\ ms = 0
    /\ running = NoReq
    /\ \E i \in GenInputs :
        req = [r \in Reqs |-> IF r = "r1" THEN NewFrame(i) ELSE NoFrame]

NextGen ==
    \/ ReqStart("r1")
    \/ ExtractPart("r1")
    \/ SkipItem("r1")
    \/ MessageDone("r1")
    \/ ExtractionDone("r1")
    \/ GenerateReturn("r1")
    \/ StreamEmit("r1")

SpecGen == InitGen /\ [][NextGen]_vars

(***************************************************************************)
(* cleanup_temp_files on any list of paths: image_utils.py 170-178.        *)
(***************************************************************************)
\* the longest list of paths handed to cleanup_temp_files
MaxPaths == 3

InsideA == Append(_TEMP_DIR, <<"a">>)
InsideB == Append(_TEMP_DIR, <<"b">>)
Missing == Append(_TEMP_DIR, <<"n", "o">>)
OutsideFile == Append(Outside, <<"x">>)
\* <temp root>/../etc/x
Traversal == _TEMP_DIR \o <<DotDot>> \o OutsideFile

CleanupPaths == {NoPath, InsideA, InsideB, Missing, _TEMP_DIR, OutsideFile, Traversal}
PathLists == UNION {[1..n -> CleanupPaths] : n \in 0..MaxPaths}

OnDisk == [p \in {InsideA, InsideB, OutsideFile} |-> [by |-> <<"disk", 0, 0>>]]

InitCleanup ==
    /\ Quiet
    /\ modelCall = NoModelCall
    /\ notifier = NoNotifier
    /\ fileCall = NoCall
    /\ req = [r \in {} |-> 0]
    /\ ms = 0
    /\ running = NoReq
    /\ fs = OnDisk
    /\ \E ps \in PathLists : cleanupCall = [pc |-> "called", paths |-> ps]

\* image_utils.py 170-178: the whole loop; the function awaits nothing
CleanupAll ==
    /\ cleanupCall.pc = "called"
    /\ fs' = cleanup_temp_files(fs, cleanupCall.paths)
    /\ cleanupCall' = [pc |-> "returned", paths |-> cleanupCall.paths, before |-> fs]
    /\ UNCHANGED <<lifecycleVars, candVars, rotVars, genVars, modelCall, notifier, fileCall,
                   req, ms, running>>

NextCleanup == CleanupAll

SpecCleanup == InitCleanup /\ [][NextCleanup]_vars

(***************************************************************************)
(* File references and the file endpoints: chat.py 163-174,                *)
(* files.py 34-113.                                                        *)
(***************************************************************************)
\* the longest content list of file references
MaxRefs == 2

U2 == <<"u", "2">>
\* the identifiers upload_file hands out
UploadIds == {Up, U2}
\* the identifiers a client may name
FileIds == {Up, U2, <<"n", "o">>, <<"a", "/", "u", "p">>, <<"a", "\\", "u", "p">>,
            <<".", ".", "u", "p">>, DotDot, Dot}

\* files.py 34-79: the file is written under a new identifier
upload_file ==
    /\ running = NoReq
    /\ \E id \in UploadIds :
        /\ Append(get_temp_dir, id) \notin DOMAIN fs
        /\ fs' = WriteBytes(fs, Append(get_temp_dir, id), <<"upload", 0, 0>>)
        /\ fileCall' = [pc |-> "returned", op |-> "upload", file_id |-> id,
                        status |-> 200, touched |-> FALSE]
    /\ UNCHANGED <<lifecycleVars, candVars, rotVars, genVars, modelCall, notifier, cleanupCall,
                   req, ms, running>>

\* files.py 82-98
get_file_info ==
    /\ running = NoReq
    /\ \E id \in FileIds :
        LET dest == PathJoin(get_temp_dir, id)
        IN  fileCall' = IF GuardRejects(id)
                        THEN [pc |-> "returned", op |-> "get", file_id |-> id,
                              status |-> 400, touched |-> FALSE]
                        ELSE IF ~Exists(fs, dest)
                        THEN [pc |-> "returned", op |-> "get", file_id |-> id,
                              status |-> 404, touched |-> FALSE]
                        ELSE [pc |-> "returned", op |-> "get", file_id |-> id,
                              status |-> 200, touched |-> TRUE]
    /\ UNCHANGED <<lifecycleVars, candVars, rotVars, genVars, modelCall, notifier, cleanupCall,
                   fs, req, ms, running>>

\* files.py 101-113: unlink on the directory raises, which the handler does
\* not catch
delete_file ==
    /\ running = NoReq
    /\ \E id \in FileIds :
        LET dest == PathJoin(get_temp_dir, id)
        IN  IF GuardRejects(id)
            THEN /\ fileCall' = [pc |-> "returned", op |-> "delete", file_id |-> id,
                                 status |-> 400, touched |-> FALSE]
                 /\ fs' = fs
            ELSE IF ~Exists(fs, dest)
            THEN /\ fileCall' = [pc |-> "returned", op |-> "delete", file_id |-> id,
                                 status |-> 404, touched |-> FALSE]
                 /\ fs' = fs
            ELSE IF UnlinkRaises(fs, dest)
            THEN /\ fileCall' = [pc |-> "returned", op |-> "delete", file_id |-> id,
                                 status |-> 500, touched |-> FALSE]
                 /\ fs' = fs
            ELSE /\ fileCall' = [pc |-> "returned", op |-> "delete", file_id |-> id,
                                 status |-> 200, touched |-> TRUE]
                 /\ fs' = Unlink(fs, dest)
    /\ UNCHANGED <<lifecycleVars, candVars, rotVars, genVars, modelCall, notifier, cleanupCall,
                   req, ms, running>>

\* the parts that name an uploaded file, and a text
RefParts ==
    {Text(<<"h", "i">>), Image(FileUp), Image(FileMissing), Image(FileSlash),
     InputImage(FileBackslash), Image(FileDotDot), Image(FileEmpty)}
RefLists == UNION {[1..n -> RefParts] : n \in 1..MaxRefs}

\* a chat request with one user message
OneMessage(content) ==
    [endpoint |-> "chat", stream |-> FALSE, instructions |-> FALSE,
     messages |-> <<Msg("user", content)>>]

InitFiles ==
    /\ Installed
    /\ modelCall = NoModelCall
    /\ notifier = NoNotifier
    /\ cleanupCall = NoCall
    /\ fileCall = NoCall
    /\ fs = Uploaded
    /\ ms = 0
    /\ running = NoReq
    /\ \E ps \in RefLists :
        req = [r \in Reqs |-> IF r = "r1" THEN NewFrame(OneMessage(List(ps)))
                              ELSE NoFrame]

NextFiles ==
    \/ upload_file
    \/ get_file_info
    \/ delete_file
    \/ ReqStart("r1")
    \/ ExtractPart("r1")
    \/ MessageDone("r1")
    \/ ExtractionDone("r1")

SpecFiles == InitFiles /\ [][NextFiles]_vars

(***************************************************************************)
(* _extract_multimodal_content on any content: chat.py 106-182.            *)
(***************************************************************************)
\* the longest content list
MaxParts == 3

ExtractParts ==
    {Text(<<"h", "i">>), InputText(<<"y", "o">>), Text(<<>>), NotADict, Audio,
     Image(DataPng), InputImage(DataOther), Image(DataNoPrefix), Image(DataBadPayload),
     Image(FileUp), Image(FileMissing), Image(FileDotDot),
     Image(Http), InputImage(Https), Image(Ftp), Image(EmptyUrl)}

ExtractContents ==
    {Str(<<>>), Str(<<"h", "i", " ">>), NoContent}
    \cup {List(ps) : ps \in UNION {[1..n -> ExtractParts] : n \in 0..MaxParts}}

InitExtract ==
    /\ Installed
    /\ modelCall = NoModelCall
    /\ notifier = NoNotifier
    /\ cleanupCall = NoCall
    /\ fileCall = NoCall
    /\ fs = Uploaded
    /\ ms = 0
    /\ running = NoReq
    /\ \E c \in ExtractContents :
        req = [r \in Reqs |-> IF r = "r1" THEN NewFrame(OneMessage(c)) ELSE NoFrame]

NextExtract ==
    \/ ReqStart("r1")
    \/ ExtractPart("r1")
    \/ DownloadReturn("r1")
    \/ MessageDone("r1")

SpecExtract == InitExtract /\ [][NextExtract]_vars

(***************************************************************************)
(* TelegramNotifier.notify_error, called by the handlers of failing        *)
(* requests that are in flight together.                                   *)
(***************************************************************************)
_DEFAULT_COOLDOWN == 60
MaxTicks == 2

NCallers == {"n1", "n2"}
ErrorTypes == {"auth", "500"}

\* telegram_notifier.py 44-55: what _cfg() reads from CONFIG; the token and
\* the chat id are kept as whether they are set
Settings ==
    {[enabled |-> e, credentials |-> c, cooldown |-> _DEFAULT_COOLDOWN,
      notify_types |-> {"auth"}] :
        e \in BOOLEAN, c \in BOOLEAN}

NoNotify == [pc |-> "idle"]

\* lines 84-98: the checks notify_error makes before it sends; mono is
\* time.monotonic() and last_sent[t] is 0 for a type never sent (line 96)
Suppressed(cfg, last_sent, error_type, mono) ==
    \/ ~cfg.enabled
    \/ ~cfg.credentials
    \/ error_type \notin cfg.notify_types
    \/ mono - last_sent[error_type] < cfg.cooldown

\* lines 84-101: notify_error up to `await self._send(...)`, or to its return
\* of False
NotifyStart(c) ==
    /\ notifier.calls[c].pc = "idle"
    /\ \E t \in ErrorTypes :
        notifier' =
            [notifier EXCEPT !.calls[c] =
                IF Suppressed(notifier.cfg, notifier.last_sent, t, notifier.mono)
                THEN [pc |-> "done", error_type |-> t, now |-> notifier.mono,
                      ret |-> FALSE]
                ELSE [pc |-> "sending", error_type |-> t, now |-> notifier.mono]]
    /\ UNCHANGED <<lifecycleVars, candVars, rotVars, genVars, modelCall, fs, req, ms,
                   running, cleanupCall, fileCall>>

\* lines 101-104 and 136-152: _send comes back, with True when Telegram took
\* the message; only then is the time of the call stored
SendReturn(c) ==
    /\ notifier.calls[c].pc = "sending"
    /\ \E ok \in BOOLEAN :
        LET f == notifier.calls[c]
        IN  notifier' =
                [notifier EXCEPT
                    !.calls[c] = [f EXCEPT !.pc = "done"] @@ [ret |-> ok],
                    !.last_sent[f.error_type] = IF ok THEN f.now ELSE @,
                    !.sent = IF ok THEN Append(@, [error_type |-> f.error_type,
                                                   now |-> f.now])
                             ELSE @]
    /\ UNCHANGED <<lifecycleVars, candVars, rotVars, genVars, modelCall, fs, req, ms,
                   running, cleanupCall, fileCall>>

\* the handler that called notify_error goes on
NotifyDone(c) ==
    /\ notifier.calls[c].pc = "done"
    /\ notifier' = [notifier EXCEPT !.calls[c] = NoNotify]
    /\ UNCHANGED <<lifecycleVars, candVars, rotVars, genVars, modelCall, fs, req, ms,
                   running, cleanupCall, fileCall>>

\* time.monotonic() moves on, by a second or by a whole cooldown
MonoTick ==
    /\ notifier.ticks < MaxTicks
    /\ \E d \in {1, _DEFAULT_COOLDOWN} :
        notifier' = [notifier EXCEPT !.mono = @ + d, !.ticks = @ + 1]
    /\ UNCHANGED <<lifecycleVars, candVars, rotVars, genVars, modelCall, fs, req, ms,
                   running, cleanupCall, fileCall>>

InitNotify ==
    /\ Quiet
    /\ modelCall = NoModelCall
    /\ fs = NoFiles
    /\ req = [r \in {} |-> 0]
    /\ ms = 0
    /\ running = "none"
    /\ cleanupCall = NoCall
    /\ fileCall = NoCall
    /\ \E cfg \in Settings :
        notifier = [pc |-> "ready", cfg |-> cfg,
                    last_sent |-> [t \in ErrorTypes |-> 0],
                    calls |-> [c \in NCallers |-> NoNotify],
                    sent |-> <<>>,
                    mono |-> _DEFAULT_COOLDOWN, ticks |-> 0]

NextNotify ==
    \/ \E c \in NCallers : NotifyStart(c)
    \/ \E c \in NCallers : SendReturn(c)
    \/ \E c \in NCallers : NotifyDone(c)
    \/ MonoTick

SpecNotify == InitNotify /\ [][NextNotify]_vars

(***************************************************************************)
(* Claims.                                                                 *)
(***************************************************************************)
Sources(cs) == [i \in 1..Len(cs) |-> cs[i][1]]
Sids(at) == {at[i].sid : i \in 1..Len(at)}
Done(p) == call[p].pc = "done"
ErrorCodes == {"auth_expired", "no_cookies", "network", "disabled", "unknown"}

\* C1: whenever the live client reference is non-null, get_client_status
\* reports initialized=true with error_code null and error null.
C1_HandleImpliesNoError ==
    client # NoSession =>
        /\ get_client_status.initialized
        /\ get_client_status.error_code = NoCode
        /\ get_client_status.error = NoError

\* C2: when an init_gemini_client call has returned, the live handle is absent
\* or is a session that this very call constructed.
C2_Supersedes ==
    \A p \in Callers :
        Done(p) => ret[p].client = NoSession \/ ret[p].client \in Sids(call[p].attempts)

\* C3: get_gemini_client never hands its caller a session whose init() has
\* not completed successfully.
C3_ReaderGetsReadySession ==
    lastGot.kind = "session" => lastGot.state = "ready"

\* C4: at most one init_gemini_client call is suspended in a session's
\* init() at any time.
C4_SingleFlight ==
    Cardinality({p \in Callers : call[p].pc = "await_init"}) <= 1

\* C5: when a call returns True, the live handle is the session this call
\* initialized and the status carries no error.
C5_TrueMeansInstalled ==
    \A p \in Callers :
        (Done(p) /\ ret[p].success) =>
            /\ ret[p].client = CurSid(p)
            /\ ret[p].error_code = NoCode
            /\ ret[p].error = NoError

\* C6: the candidate list is the environment pair iff both its halves are
\* non-empty after trimming, then the persisted pair iff both its halves are
\* non-empty and it differs from the environment pair, then the browser pair
\* iff the list is otherwise empty, the fallback is not disabled and both
\* browser halves are non-empty.
C6_CandidateList ==
    candOut.built =>
        LET e1 == _normalize_cookie(candIn.env.psid)
            e2 == _normalize_cookie(candIn.env.psidts)
            c1 == _normalize_cookie(candIn.cfg.psid)
            c2 == _normalize_cookie(candIn.cfg.psidts)
            b1 == IF candIn.browser = None THEN <<>>
                  ELSE _normalize_cookie(candIn.browser[1])
            b2 == IF candIn.browser = None THEN <<>>
                  ELSE _normalize_cookie(candIn.browser[2])
            hasEnv == e1 # <<>> /\ e2 # <<>>
            hasCfg == c1 # <<>> /\ c2 # <<>> /\ (c1 # e1 \/ c2 # e2)
            hasBrowser == /\ ~hasEnv /\ ~hasCfg
                          /\ ~_env_truthy(candIn.env.disableFallback)
                          /\ b1 # <<>> /\ b2 # <<>>
        IN  candOut.list =
                (IF hasEnv THEN << <<"env", e1, e2>> >> ELSE <<>>)
                \o (IF hasCfg THEN << <<"config", c1, c2>> >> ELSE <<>>)
                \o (IF hasBrowser THEN << <<"browser", b1, b2>> >> ELSE <<>>)

\* an environment pair that needed trimming, followed by a distinct persisted pair
C6_Witness ==
    /\ candOut.built
    /\ candIn.env.psid = <<DQ, "a", DQ>>
    /\ candIn.env.psidts = <<" ", "a">>
    /\ candOut.list = << <<"env", A, A>>, <<"config", <<"b">>, A>> >>

\* C7: within one call the attempts follow the candidate list in order, each
\* candidate at most once and with a session of its own; a candidate is
\* attempted only after every earlier one failed authentication and none after
\* a success; environment credentials alone give exactly one attempt, and an
\* environment pair failing authentication before a persisted pair gives
\* exactly two, environment first.
C7_AttemptsInOrder ==
    \A p \in Callers :
        LET at == call[p].attempts
            cs == call[p].cands
        IN  /\ Len(at) <= Len(cs)
            /\ \A i \in 1..Len(at) :
                /\ at[i].source = cs[i][1]
                /\ sessions[at[i].sid].psid = cs[i][2]
                /\ sessions[at[i].sid].psidts = cs[i][3]
                /\ i < Len(at) => at[i].outcome = "auth"
                /\ at[i].outcome = "ok" => Done(p)
            /\ Cardinality(Sids(at)) = Len(at)
            /\ (Done(p) /\ Sources(cs) = <<"env">>) => Len(at) = 1
            /\ (Done(p) /\ Sources(cs) = <<"env", "config">> /\ at[1].outcome = "auth")
                  => Len(at) = 2 /\ Sources(cs) = <<at[1].source, at[2].source>>

\* the environment pair failed authentication and the persisted pair succeeded
C7_Witness ==
    \E p \in Callers :
        /\ Done(p)
        /\ Sources(call[p].cands) = <<"env", "config">>
        /\ Len(call[p].attempts) = 2
        /\ call[p].attempts[1].outcome = "auth"
        /\ call[p].attempts[2].outcome = "ok"

\* C8: a network error, or any other non-authentication error, of a
\* candidate ends the call at once: no later candidate is attempted, the call
\* returns False, the live handle is absent and the error code is network
\* (unknown for the other errors).
C8_AbortOnNetworkOrUnknown ==
    \A p \in Callers :
        \A i \in 1..Len(call[p].attempts) :
            call[p].attempts[i].outcome \in {"network", "unknown"} =>
                /\ Done(p)
                /\ i = Len(call[p].attempts)
                /\ ~ret[p].success
                /\ ret[p].client = NoSession
                /\ ret[p].error_code = call[p].attempts[i].outcome
                /\ ret[p].error = call[p].attempts[i].text

\* the first of two candidates met a network error and the second was not tried
C8_Witness ==
    \E p \in Callers :
        /\ Done(p)
        /\ Len(call[p].cands) = 2
        /\ Len(call[p].attempts) = 1
        /\ call[p].attempts[1].outcome = "network"

\* C9: a call ends with error_code auth_expired exactly when its candidate
\* list is non-empty and every candidate failed with an authentication error;
\* the live handle is then absent and the error detail is the message of the
\* last candidate's authentication error.
C9_AuthExpiredIffAllAuthFailed ==
    \A p \in Callers :
        Done(p) =>
            LET at == call[p].attempts
                cs == call[p].cands
                allAuth == /\ cs # <<>>
                           /\ Len(at) = Len(cs)
                           /\ \A i \in 1..Len(at) : at[i].outcome = "auth"
            IN  /\ (ret[p].error_code = "auth_expired") <=> allAuth
                /\ allAuth => /\ ~ret[p].success
                              /\ ret[p].client = NoSession
                              /\ ret[p].error = at[Len(at)].text

\* C10: a call that returns True leaves error_code null, and a call that
\* returns False leaves exactly one of the five error codes.
C10_ReturnMatchesErrorCode ==
    \A p \in Callers :
        Done(p) =>
            IF ret[p].success THEN ret[p].error_code = NoCode
            ELSE ret[p].error_code \in ErrorCodes

\* C11 as stated: get_gemini_client returns the live session when one is
\* installed, and otherwise raises with the error detail the latest
\* initialization recorded, the generic message only when none is recorded.
C11_DetailOrGenericIfNone ==
    [][lastGot' # lastGot =>
         IF client = NoSession
         THEN /\ lastGot'.kind = "raised"
              /\ lastGot'.detail = IF initError = NoError THEN NotInitializedMsg
                                   ELSE initError
         ELSE /\ lastGot'.kind = "session"
              /\ lastGot'.sid = client]_vars

\* C11, amended: get_gemini_client returns the live session when one is
\* installed, and otherwise raises with the recorded error detail, or with
\* the generic message when no detail is recorded or the recorded detail is
\* the empty string; this holds while a re-initialization is in flight too.
C11_DetailOrGenericIfEmpty ==
    [][lastGot' # lastGot =>
         IF client = NoSession
         THEN /\ lastGot'.kind = "raised"
              /\ lastGot'.detail = IF initError \in {NoError, <<>>}
                                   THEN NotInitializedMsg ELSE initError
         ELSE /\ lastGot'.kind = "session"
              /\ lastGot'.sid = client]_vars

\* a call raised the generic message although the empty detail of a network
\* error was recorded
C11_Witness ==
    /\ lastGot.kind = "raised"
    /\ lastGot.recorded = <<>>
    /\ lastGot.detail = NotInitializedMsg
    /\ errorCode = "network"

\* C12: get_client_status and get_gemini_client leave the live handle, the
\* error code and the error detail unchanged and start no initialization
\* attempt, in every state.
C12_ReadersChangeNothing ==
    [][(lastGot' # lastGot \/ lastStatus' # lastStatus) =>
         UNCHANGED <<client, initError, errorCode, sessions, call, ncalls, config>>]_vars

\* GET /status answered "disconnected" with the recorded error
C12_Witness ==
    /\ lastStatus.kind = "status"
    /\ lastStatus.gemini_status = "disconnected"
    /\ lastStatus.error_code \in ErrorCodes
    /\ lastGot.kind = "raised"
    /\ client = NoSession
    /\ errorCode = lastStatus.error_code

\* a step of the loop: one iteration, `odd` flips
TickStep == lastTick'.odd # lastTick.odd

\* C13: a tick at which the live session's cookie jar holds the same two
\* values as at the previous tick invokes no durable write, whatever admin
\* configuration updates and re-initializations came in between.
C13_SameJarNoWrite ==
    [][(/\ TickStep
        /\ lastTick.kind = "tick" /\ lastTick.read
        /\ lastTick'.read
        /\ lastTick'.jar = lastTick.jar) => lastTick'.writes = 0]_vars

\* C14: a tick performs at most one durable write; it writes exactly when
\* one of the two jar values is non-empty and differs from the persisted
\* value; what it writes carries both current credential values; a persisted
\* value is never replaced by an empty or missing jar value, nor changed
\* when the jar value equals it.
C14_TickWritesOnce ==
    [][(TickStep /\ client # NoSession) =>
         LET new == JarOf(client)
             old == <<config.psid, config.psidts>>
             cur == <<config'.psid, config'.psidts>>
             differs == [k \in {1, 2} |->
                           new[k] \notin {None, <<>>} /\ new[k] # Persisted(old[k])]
         IN  /\ lastTick'.writes \in {0, 1}
             /\ lastTick'.writes = 1 <=> (differs[1] \/ differs[2])
             /\ \A k \in {1, 2} : cur[k] = IF differs[k] THEN new[k] ELSE old[k]
             /\ \A k \in {1, 2} : new[k] \in {None, <<>>} => cur[k] = old[k]
             /\ \A k \in {1, 2} : new[k] = Persisted(old[k]) => cur[k] = old[k]
             /\ lastTick'.ok => /\ disk'.psid = cur[1]
                                /\ disk'.psidts = cur[2]
             /\ lastTick'.writes = 0 => disk' = disk
             /\ config'.proxy = config.proxy /\ config'.enabled = config.enabled]_vars

\* a tick wrote once: the jar had lost one value, which stayed as persisted,
\* and held a rotated other one, which reached the file
C14_Witness ==
    /\ lastTick.kind = "tick"
    /\ lastTick.jar = <<None, R>>
    /\ lastTick.writes = 1
    /\ lastTick.ok
    /\ config.psid # None /\ config.psid # <<>>
    /\ disk.psid = config.psid
    /\ disk.psidts = R

\* C15: when the durable write of a detected rotation fails on a tick, the
\* value is written again on the next tick.
C15_FailedWriteRetried ==
    [][(/\ TickStep
        /\ lastTick.kind = "tick" /\ lastTick.writes = 1 /\ ~lastTick.ok
        /\ lastTick'.read
        /\ lastTick'.saw = lastTick.saw
        /\ lastTick'.jar = lastTick.jar) => lastTick'.writes = 1]_vars

\* C16: whenever a session is installed, at startup or by a later
\* re-initialization, the rotation-persistence loop is running.
C16_LoopRunsWhileInstalled ==
    (phase = "serving" /\ client # NoSession /\ sessions[client].state = "ready")
        => persistTask = "running"

\* C17: a tick at which no session is installed reads no cookie jar, changes
\* no configuration value, performs no write and records no error, and the
\* loop goes on to its next sleep.
C17_AbsentSessionSkipped ==
    [][(TickStep /\ client = NoSession) =>
         /\ ~lastTick'.read
         /\ lastTick'.writes = 0
         /\ ~lastTick'.warned
         /\ config' = config
         /\ disk' = disk
         /\ persistTask' = "running"
         /\ UNCHANGED <<client, initError, errorCode>>]_vars

\* the loop ran an iteration after a re-initialization had failed and left
\* no session
C17_Witness ==
    /\ lastTick.kind = "tick"
    /\ lastTick.saw = NoSession
    /\ client = NoSession
    /\ errorCode \in ErrorCodes
    /\ persistTask = "running"

IsChat == gen.pc # "idle" /\ gen.fn = "_stream_response"
IsResponses == gen.pc # "idle" /\ gen.fn = "_stream_responses_api"
IsPrefix(a, b) == Len(a) <= Len(b) /\ SubSeq(b, 1, Len(a)) = a
IsSuffix(a, b) == Len(a) <= Len(b) /\ SubSeq(b, Len(b) - Len(a) + 1, Len(b)) = a

\* the k-th item of a chat stream is as the claim describes it, but for the
\* content of the second
ChatItemShape(k) ==
    LET it == gen.out[k]
        ch == it.payload.choices[1]
    IN  CASE k = 1 -> /\ it.json
                      /\ DOMAIN ch.delta = {"role", "content"}
                      /\ ch.delta.role = "assistant"
                      /\ ch.delta.content = <<>>
                      /\ ch.finish_reason = None
          [] k = 2 -> /\ it.json
                      /\ DOMAIN ch.delta = {"content"}
                      /\ ch.finish_reason = None
          [] k = 3 -> /\ it.json
                      /\ DOMAIN ch.delta = {}
                      /\ ch.finish_reason = <<"stop">>
          [] k = 4 -> /\ ~it.json
                      /\ it.payload = <<"[DONE]">>
          [] OTHER -> FALSE

\* exactly four items in order, the three chunks under one completion id,
\* nothing after [DONE]
ChatSequence ==
    /\ Len(gen.out) <= 4
    /\ gen.pc = "done" <=> Len(gen.out) = 4
    /\ \A k \in 1..Len(gen.out) : ChatItemShape(k)
    /\ \A k \in 1..Len(gen.out) :
           k <= 3 => /\ gen.out[k].payload.id = gen.out[1].payload.id
                     /\ gen.out[k].payload.choices[1].index = 0
                     /\ Len(gen.out[k].payload.choices) = 1

\* C18 as stated: _stream_response emits exactly four items in order, an
\* opening chunk (role assistant, empty content), one content chunk with
\* the full text and, when images exist, their markdown links appended, a
\* closing chunk (empty delta, finish_reason stop), then [DONE]; the three
\* chunks carry one completion id and nothing follows [DONE].
C18_FourItemsFullText ==
    IsChat =>
        /\ ChatSequence
        /\ Len(gen.out) >= 2 =>
             LET content == gen.out[2].payload.choices[1].delta.content
             IN  /\ IsPrefix(gen.text, content)
                 /\ gen.images = <<>> => content = gen.text
                 /\ gen.images # <<>> => IsSuffix(MdLinks(gen.images), content)

\* C18, amended: the same four items; the content chunk carries the text
\* as it is when there are no images, and otherwise the text, a blank line
\* and the markdown links, with the whitespace at both ends of the whole
\* stripped.
C18_FourItemsStrippedText ==
    IsChat =>
        /\ ChatSequence
        /\ Len(gen.out) >= 2 =>
             LET content == gen.out[2].payload.choices[1].delta.content
                 joined == gen.text \o <<"\n", "\n">> \o MdLinks(gen.images)
             IN  /\ gen.images = <<>> => content = gen.text
                 /\ gen.images # <<>> =>
                        /\ content = Strip(joined, Whitespace)
                        /\ IsSuffix(MdLinks(gen.images), content)
                        /\ gen.out[2].payload.images = gen.images

\* a stream of a text that begins with a blank and has two images ran to
\* its end while the clock advanced
C18_Witness ==
    /\ IsChat
    /\ gen.pc = "done"
    /\ gen.text = <<" ", "h">>
    /\ Len(gen.images) = 2
    /\ now > gen.created

EventOrder ==
    <<"response.created", "response.output_item.added", "response.content_part.added",
      "response.output_text.delta", "response.output_text.done",
      "response.output_item.done", "response.completed">>

\* C19: _stream_responses_api emits exactly seven events in the fixed order,
\* each event name equal to its payload's type field, with exactly one
\* delta event, whose delta is the full text that the done events report.
C19_SevenEventsInOrder ==
    IsResponses =>
        LET n == Len(gen.out)
        IN  /\ n <= 7
            /\ gen.pc = "done" <=> n = 7
            /\ \A k \in 1..n : /\ gen.out[k].event = EventOrder[k]
                               /\ gen.out[k].data.type = gen.out[k].event
            /\ Cardinality({k \in 1..n :
                              gen.out[k].event = "response.output_text.delta"}) <= 1
            /\ n >= 4 => Cardinality({k \in 1..n : "delta" \in DOMAIN gen.out[k].data}) = 1
            /\ n >= 5 => gen.out[5].data.text = gen.out[4].data.delta
            /\ n >= 6 => /\ Len(gen.out[6].data.item.content) = 1
                         /\ gen.out[6].data.item.content[1].text = gen.out[4].data.delta
            /\ n >= 7 => /\ Len(gen.out[7].data.response.output) = 1
                         /\ gen.out[7].data.response.output[1] = gen.out[6].data.item

\* a Responses-API stream with an image ran to its end
C19_Witness ==
    /\ IsResponses
    /\ gen.pc = "done"
    /\ Len(gen.out) = 7
    /\ gen.images # <<>>
    /\ gen.out[4].data.delta # <<>>

CarriesResponseId(ev) ==
    "response" \in DOMAIN ev.data /\ ev.data.response.id = gen.resp_id
CarriesMessageId(ev) ==
    \/ "item" \in DOMAIN ev.data /\ ev.data.item.id = gen.msg_id
    \/ /\ "response" \in DOMAIN ev.data
       /\ \E i \in 1..Len(ev.data.response.output) :
              ev.data.response.output[i].id = gen.msg_id

\* C20: every one of the seven events of a Responses-API stream carries the
\* per-response identifier and the per-message identifier, generated once
\* and identical across the events.
C20_EveryEventCarriesBothIds ==
    IsResponses =>
        \A k \in 1..Len(gen.out) :
            CarriesResponseId(gen.out[k]) /\ CarriesMessageId(gen.out[k])

RECURSIVE ConcatDeltas(_)
\* the content deltas of the chunks, one after the other
ConcatDeltas(items) ==
    IF items = <<>> THEN <<>>
    ELSE LET it == items[1]
             piece == IF it.json /\ "content" \in DOMAIN it.payload.choices[1].delta
                      THEN it.payload.choices[1].delta.content ELSE <<>>
         IN  piece \o ConcatDeltas(Tail(items))

\* the stream has ended and the single-shot response was built for the same
\* upstream response
SameResponse(fn) ==
    /\ gen.pc = "done"
    /\ gen.fn = fn
    /\ shot.fn = fn
    /\ shot.text = gen.text
    /\ shot.images = gen.images
    /\ shot.thoughts = gen.thoughts

\* C21: for every upstream text and image list, the content deltas of the
\* Chat-Completions stream, concatenated, equal the message content that
\* _to_openai_format builds for the same inputs.
C21_DeltasEqualSingleShot ==
    SameResponse("_stream_response") =>
        ConcatDeltas(gen.out) = shot.result.choices[1].message.content

\* both forms were built for a text that ends in a newline, with two images
C21_Witness ==
    /\ SameResponse("_stream_response")
    /\ gen.text = <<"h", "\n">>
    /\ Len(gen.images) = 2

\* what a response dict carries under an optional key
FieldOf(d, key) == IF key \in DOMAIN d THEN d[key] ELSE None

\* the completed form of the stream: the content chunk of a chat stream, the
\* response of the response.completed event of a Responses-API stream
StreamCompleted ==
    IF gen.fn = "_stream_response" THEN gen.out[2].payload
    ELSE gen.out[7].data.response

StreamText ==
    IF gen.fn = "_stream_response" THEN ConcatDeltas(gen.out)
    ELSE gen.out[7].data.response.output[1].content[1].text

ShotText ==
    IF shot.fn = "_stream_response" THEN shot.result.choices[1].message.content
    ELSE shot.result.output[1].content[1].text

\* C22: for the same upstream response, the completed form of the stream and
\* the single-shot response of the same protocol carry identical text, images
\* and thoughts, for the Responses-API and the Chat-Completions protocol.
C22_StreamEqualsSingleShot ==
    \A fn \in {"_stream_response", "_stream_responses_api"} :
        SameResponse(fn) =>
            /\ StreamText = ShotText
            /\ FieldOf(StreamCompleted, "images") = FieldOf(shot.result, "images")
            /\ FieldOf(StreamCompleted, "thoughts") = FieldOf(shot.result, "thoughts")

\* the model the description of C28 names for an input
C28_Named(m) ==
    IF m \in {None, <<>>} THEN FLASH
    ELSE LET key == Lower(Strip(m, Whitespace))
         IN  CASE key \in DOMAIN _MODEL_ALIASES -> _MODEL_ALIASES[key]
               [] key \notin DOMAIN _MODEL_ALIASES /\ Contains(key, Thinking)
                    -> FLASH_THINKING
               [] key \notin DOMAIN _MODEL_ALIASES /\ ~Contains(key, Thinking)
                    /\ Contains(key, Pro) -> PRO
               [] OTHER -> FLASH

\* C28: _resolve_model returns, for every input string, FLASH for an empty or
\* absent input, the alias table's value when the trimmed lower-cased input is
\* a key, otherwise FLASH_THINKING if it contains "thinking", else PRO if it
\* contains "pro", else FLASH; the result is one of the three model ids.
C28_ResolveModelTotal ==
    modelCall.pc = "returned" =>
        /\ modelCall.value = C28_Named(modelCall.model_str)
        /\ modelCall.value \in GeminiModels

\* a name that is no alias key and holds both "pro" and "thinking" resolved
C28_Witness ==
    /\ modelCall.pc = "returned"
    /\ Lower(Strip(modelCall.model_str, Whitespace)) \notin DOMAIN _MODEL_ALIASES
    /\ Contains(Lower(modelCall.model_str), Pro)
    /\ Contains(Lower(modelCall.model_str), Thinking)
    /\ modelCall.value = FLASH_THINKING

\* the paths that decoding or downloading created for a request
Created(r) == SelectSeq(req[r].made, LAMBDA m : m.created)

\* a file that the request wrote last is on disk
Holds(r, path) == path \in DOMAIN fs /\ fs[path].by[1] = r

\* C23: on every exit path of /v1/chat/completions and /v1/responses, every
\* temp file that extraction created for the request is deleted by the time
\* the request has ended.
C23_TempFilesDeletedAtEnd ==
    \A r \in Reqs :
        req[r].pc = "ended" =>
            \A i \in 1..Len(Created(r)) : ~Holds(r, Created(r)[i].path)

\* C24: while the response stream of a streaming request has not been fully
\* emitted, the temp files created for the request are still there.
C24_NoDeletionBeforeStreamEnd ==
    \A r \in Reqs :
        req[r].pc = "streaming" =>
            \A i \in 1..Len(Created(r)) : Created(r)[i].path \in DOMAIN fs

\* every creation of a run: the request, the message, the part and the path
Creations ==
    UNION {{<<r, Created(r)[i].mi, Created(r)[i].k, Created(r)[i].path>> :
            i \in 1..Len(Created(r))} : r \in Reqs}

\* C25: no two image parts, of one request or of concurrent requests, are
\* given the same temp path.
C25_TempPathsDistinct ==
    \A c \in Creations, d \in Creations : c[4] = d[4] => c = d

Parts1 == PartsOf(req["r1"].messages[1].content)

\* _extract_multimodal_content has returned for the message of request r1
Returned1 == req["r1"].pc = "extract" /\ Len(req["r1"].extracted) = 1

\* the part names an uploaded file
IsFileRef(part) ==
    part.type \in {"image_url", "input_image"} /\ part.url.scheme = "file"

\* a file of part k is in the file list
FileOfPart(k) == \E i \in 1..Len(req["r1"].made) : req["r1"].made[i].k = k

\* C27: a file reference whose identifier holds a slash, a backslash or ".."
\* is never added to the file list; an identifier that passes the guard is
\* included iff the file exists in the upload store; and the file endpoints
\* answer such an identifier with 400, reading and deleting nothing.
C27_FileReferencesGuarded ==
    /\ Returned1 =>
           \A k \in 1..Len(Parts1) :
               IsFileRef(Parts1[k]) =>
                   IF GuardRejects(Parts1[k].url.id) THEN ~FileOfPart(k)
                   ELSE FileOfPart(k)
                            <=> Append(_TEMP_DIR, Parts1[k].url.id) \in DOMAIN fs
    /\ (fileCall.pc = "returned" /\ fileCall.op \in {"get", "delete"}
            /\ GuardRejects(fileCall.file_id))
           => fileCall.status = 400 /\ ~fileCall.touched

\* what _extract_multimodal_content returned for the message of request r1
X1 == req["r1"].extracted[1]
Content1 == req["r1"].messages[1].content

IsTextPart(part) == part.type \in {"text", "input_text"}
IsImagePart(part) == part.type \in {"image_url", "input_image"}

RECURSIVE TextsOf(_)
\* the texts of the text-bearing parts, in order
TextsOf(parts) ==
    IF parts = <<>> THEN <<>>
    ELSE IF IsTextPart(Head(parts)) THEN <<Head(parts).text>> \o TextsOf(Tail(parts))
    ELSE TextsOf(Tail(parts))

\* the files are those of image parts, in the order of the parts
FilesInPartOrder ==
    LET made == req["r1"].made
    IN  /\ X1.files = [i \in 1..Len(made) |-> made[i].path]
        /\ \A i \in 1..Len(made) : IsImagePart(Parts1[made[i].k])
        /\ \A i \in 1..Len(made), j \in 1..Len(made) : i < j => made[i].k < made[j].k

\* a string comes back as it is, with no files
StringVerbatim ==
    Content1.kind = "str" => X1 = [text |-> Content1.value, files |-> <<>>]

\* C29 as stated: a string content is returned verbatim with an empty file
\* list; for a sequence, the text is the texts of all parts of type text or
\* input_text joined by single spaces in their order, the files are those of
\* the image parts in part order, and parts of another type change nothing.
C29_AllTextsJoined ==
    Returned1 =>
        /\ StringVerbatim
        /\ Content1.kind = "list" =>
               /\ X1.text = JoinSpaces(TextsOf(Parts1))
               /\ FilesInPartOrder

\* C29, amended: as above, where the texts joined are those of the text or
\* input_text parts whose text is not empty; a part with an empty text adds
\* neither a text nor a space.
C29_NonEmptyTextsJoined ==
    Returned1 =>
        /\ StringVerbatim
        /\ Content1.kind = "list" =>
               /\ X1.text = JoinSpaces(SelectSeq(TextsOf(Parts1), LAMBDA t : t # <<>>))
               /\ FilesInPartOrder

\* a list with a text, an empty text and the file of an image was extracted
C29_Witness ==
    /\ Returned1
    /\ Content1.kind = "list"
    /\ \E k \in 1..Len(Parts1) : Parts1[k] = Text(<<>>)
    /\ X1.text # <<>>
    /\ X1.files # <<>>

\* the download awaited for part k failed
DownloadFailed(k) ==
    \E i \in 1..Len(req["r1"].dl) : req["r1"].dl[i].k = k /\ ~req["r1"].dl[i].ok

\* part k is an image part that cannot be used
Unusable(k) ==
    /\ IsImagePart(Parts1[k])
    /\ LET url == Parts1[k].url
       IN  \/ url.scheme = "data" /\ (~url.wellformed \/ ~url.decodable)
           \/ url.scheme = "file"
                /\ (GuardRejects(url.id) \/ Append(_TEMP_DIR, url.id) \notin DOMAIN fs)
           \/ url.scheme \in {"http", "https"} /\ DownloadFailed(k)
           \/ url.scheme \notin {"data", "file", "http", "https"}

\* part k is an image part that can be used
Usable(k) ==
    /\ IsImagePart(Parts1[k])
    /\ LET url == Parts1[k].url
       IN  \/ url.scheme = "data" /\ url.wellformed /\ url.decodable
           \/ url.scheme = "file" /\ Append(_TEMP_DIR, url.id) \in DOMAIN fs
           \/ url.scheme \in {"http", "https"} /\ ~DownloadFailed(k)

UploadPath == Append(_TEMP_DIR, Up)

\* the request took the uploaded file in through a file reference
Referenced(r) ==
    \E i \in 1..Len(req[r].all_file_paths) : req[r].all_file_paths[i] = UploadPath

\* C36: the cleanup of a request deletes only the files its extraction newly
\* created: an uploaded file the request took in through a file reference is
\* still in the upload store when the request has ended
C36_ReferencedUploadSurvives ==
    \A r \in Reqs :
        (req[r].pc = "ended" /\ Referenced(r)) => Exists(fs, UploadPath)

(***************************************************************************)
(* The generation endpoints: what a request is answered with.              *)
(***************************************************************************)
\* the requests that came in
Frames == {r \in Reqs : req[r].pc # "none"}

\* the upstream call of request r raised
Failed(r) == req[r].error.kind = "raised"

\* C31: on every generation endpoint an upstream failure classified as
\* authentication-related is answered with 401 and the notification gate is
\* invoked exactly once, with category auth
C31_AuthFailureIs401AndNotified ==
    \A r \in Frames :
        (Failed(r) /\ IsAuth(req[r].error.text)) =>
            /\ req[r].status = 401
            /\ req[r].notified = <<"auth">>

\* the request created no temp file
NothingCreated(r) == req[r].made = <<>> /\ fs = Uploaded

\* C32 as stated: with no session installed, a request to any generation
\* endpoint ends with 503 and the recorded error detail, with no upstream
\* call and no temp file
C32_NoSessionIs503WithRecordedDetail ==
    \A r \in Frames :
        (client = NoSession /\ req[r].pc # "new") =>
            /\ req[r].pc = "ended"
            /\ req[r].status = 503
            /\ req[r].detail = initError
            /\ req[r].calls = 0
            /\ NothingCreated(r)

\* C32, amended: with no session installed, a request to any generation
\* endpoint ends with 503 and the recorded error detail, or the generic
\* message when the recorded detail is empty or none is recorded, with no
\* upstream call and no temp file
C32_NoSessionIs503 ==
    \A r \in Frames :
        (client = NoSession /\ req[r].pc # "new") =>
            /\ req[r].pc = "ended"
            /\ req[r].status = 503
            /\ req[r].detail = IF initError \in {NoError, <<>>} THEN NotInitializedMsg
                               ELSE initError
            /\ req[r].calls = 0
            /\ NothingCreated(r)

C32_Witness ==
    \E r \in Frames :
        /\ client = NoSession
        /\ initError \notin {NoError, <<>>}
        /\ req[r].endpoint = "gemini-chat"
        /\ req[r].status = 503

\* the endpoints that sort upstream failures into kinds
Sorting == {"chat", "responses"}

Recognized(f, m) ==
    \/ RoleOf(m) \in {"user", "assistant", "system"}
    \/ RoleOf(m) = "developer" /\ f.endpoint = "responses"

\* the message carries a text that is not empty
GivesText(m) ==
    /\ "content" \in DOMAIN m
    /\ \/ m.content.kind = "str" /\ m.content.value # <<>>
       \/ /\ m.content.kind = "list"
          /\ \E k \in 1..Len(m.content.parts) :
                /\ IsTextPart(m.content.parts[k])
                /\ m.content.parts[k].text # <<>>

\* some message of the request yields a non-empty text under a recognized role
Speaks(f) ==
    \E i \in 1..Len(f.messages) :
        /\ IsMessageItem(f, f.messages[i])
        /\ Recognized(f, f.messages[i])
        /\ GivesText(f.messages[i])

\* C39: with a session installed, a request to /v1/chat/completions or
\* /v1/responses none of whose messages yields a non-empty text under a
\* recognized role, and that has no instructions, makes no upstream call and
\* ends with 400; a request with such a message, or with instructions, is
\* never answered 400
C39_RejectedIffNoText ==
    \A r \in Frames :
        (client # NoSession /\ req[r].endpoint \in Sorting) =>
            IF Speaks(req[r]) \/ req[r].instructions
            THEN req[r].status # 400
            ELSE /\ req[r].calls = 0
                 /\ req[r].pc \notin {"generate", "streaming"}
                 /\ req[r].pc = "ended" => req[r].status = 400

C39_Witness ==
    \E r \in Frames :
        /\ req[r].status = 400
        /\ \E i \in 1..Len(req[r].messages) : GivesText(req[r].messages[i])

(***************************************************************************)
(* init_gemini_client when there is nothing to connect with.               *)
(***************************************************************************)
\* caller p's call of init_gemini_client begins in this step
Starts(p) == ncalls' # ncalls /\ call[p].pc = "idle" /\ call'[p].pc # "idle"

\* the call that began in this step has returned False without a candidate
\* and without a session built, leaving the given error code
Refused(p, code) ==
    /\ call'[p].pc = "done"
    /\ call'[p].cands = <<>>
    /\ call'[p].attempts = <<>>
    /\ sessions' = sessions
    /\ ~ret'[p].success
    /\ ret'[p].error_code = code
    /\ errorCode' = code

\* C35: a call of init_gemini_client made while the feature is disabled
\* builds no candidate, makes no connection attempt and returns False with
\* error code disabled; made while it is enabled and the candidate list is
\* empty, it makes no attempt and returns False with error code no_cookies
C35_DisabledOrEmptyRefused ==
    [][\A p \in Callers :
         Starts(p) =>
            /\ ~config'.enabled => Refused(p, "disabled")
            /\ (config'.enabled /\ BuildCandidates(environ, config', browser) = <<>>) =>
                   Refused(p, "no_cookies")]_vars

C35_Witness ==
    \E p \in Callers :
        /\ call[p].pc = "done"
        /\ ~config.enabled
        /\ BuildCandidates(environ, config, browser) # <<>>
        /\ call[p].cands = <<>>
        /\ ~ret[p].success
        /\ ret[p].error_code = "disabled"

(***************************************************************************)
(* The writers of config.conf.                                             *)
(***************************************************************************)
CookiesKept == config'.psid = config.psid /\ config'.psidts = config.psidts

\* C34: the updates of the persisted configuration by the rotation tick and
\* by the admin endpoints are serialized.  A writer changes CONFIG and writes
\* the file in one step, no other writer's step in between; a write that
\* reaches the file puts all of CONFIG there, so every value another writer
\* stored is in the file again; and a writer changes only the values it is
\* there to set.
C34_WritersSerialized ==
    [][/\ disk' # disk => (diskOk /\ disk' = DiskOf(config'))
       /\ (config' # config /\ diskOk) => disk' = DiskOf(config')
       /\ TickStep => (config'.proxy = config.proxy /\ config'.model = config.model)
       /\ config'.proxy # config.proxy => (CookiesKept /\ config'.model = config.model)
       /\ config'.model # config.model => (CookiesKept /\ config'.proxy = config.proxy)
      ]_vars

\* the file holds what three writers stored: the tick a rotated cookie, the
\* admin endpoints a proxy and a model
C34_Witness ==
    /\ lastTick.kind = "tick"
    /\ lastTick.writes = 1
    /\ disk.psidts = R
    /\ disk.proxy = <<"p">>
    /\ disk.model = M1
    /\ disk = DiskOf(config)

(***************************************************************************)
(* The rotation loop's task.                                               *)
(***************************************************************************)
\* the tasks that still run the loop: those no cancel() was called on
Looping == {i \in DOMAIN tasks : tasks[i] = "sleeping"}

\* a call of start_cookie_persister returns in this step
StartStep == startRet'.odd # startRet.odd

\* _persist_task holds a task that is not done
HoldsLiveTask == persistTask # "None" /\ tasks[Len(tasks)] # "cancelled"

\* C37: after any sequence of start_cookie_persister and
\* stop_cookie_persister calls at most one task runs the rotation loop, and
\* it is the one _persist_task holds; a start call made while a loop task is
\* running creates no task and returns that one, any other start call
\* creates one task and returns it
C37_AtMostOneLoopTask ==
    /\ [](/\ Cardinality(Looping) <= 1
          /\ \A i \in Looping : i = Len(tasks) /\ persistTask = "running")
    /\ [][StartStep =>
            IF HoldsLiveTask
            THEN /\ tasks' = tasks
                 /\ startRet'.task = Len(tasks)
                 /\ ~startRet'.created
            ELSE /\ tasks' = Append(tasks, "sleeping")
                 /\ startRet'.task = Len(tasks')
                 /\ startRet'.created]_vars

\* after start, stop, start, a further start call has found the second task
\* running and returned it
C37_Witness ==
    /\ Len(tasks) = 2
    /\ tasks[1] \in {"cancelling", "cancelled"}
    /\ tasks[2] = "sleeping"
    /\ startRet.task = 2
    /\ ~startRet.created

\* every loop task is done
AllDone == \A i \in DOMAIN tasks : tasks[i] = "cancelled"

\* C38: once stop_cookie_persister was called at shutdown the loop runs no
\* further iteration and nothing is written to the file or to CONFIG, and
\* every loop task terminates; the call and the delivery of the cancellation
\* leave the file as the latest write left it, and an iteration that began a
\* write has finished it in the same step, so no cancellation falls inside
C38_StoppedLoopEnds ==
    /\ [][/\ phase = "shutdown" => (~TickStep /\ disk' = disk /\ config' = config)
          /\ tasks' # tasks => (disk' = disk /\ config' = config /\ lastTick' = lastTick)
          /\ (TickStep /\ lastTick'.writes = 1) => disk' = write_config(config')
         ]_vars
    /\ (phase = "shutdown") ~> AllDone

\* the loop wrote a rotated value, was stopped at shutdown and is done
C38_Witness ==
    /\ phase = "shutdown"
    /\ tasks # <<>>
    /\ AllDone
    /\ lastTick.kind = "tick"
    /\ lastTick.writes = 1
    /\ lastTick.ok
    /\ disk = DiskOf(config)

(***************************************************************************)
(* The notification gate.                                                  *)
(***************************************************************************)
\* no two delivered notifications of one type come from calls made within a
\* cooldown window of each other
OnePerWindow ==
    \A i, j \in DOMAIN notifier.sent :
        (i < j /\ notifier.sent[i].error_type = notifier.sent[j].error_type) =>
            notifier.sent[j].now - notifier.sent[i].now >= notifier.cfg.cooldown

\* the cooldown of a type runs only from a call whose send came through
CooldownOnlyAfterSend ==
    \A t \in ErrorTypes :
        notifier.last_sent[t] # 0 =>
            \E i \in DOMAIN notifier.sent :
                /\ notifier.sent[i].error_type = t
                /\ notifier.sent[i].now = notifier.last_sent[t]

\* nothing is sent for a type outside the configured ones, nor when the
\* notifier is switched off
OnlyConfiguredTypes ==
    \A i \in DOMAIN notifier.sent :
        /\ notifier.sent[i].error_type \in notifier.cfg.notify_types
        /\ notifier.cfg.enabled

\* C40: for each error type notify_error sends at most one notification
\* within any cooldown window, also when several failing requests call it at
\* the same time; a failed send starts no cooldown; and a type outside the
\* configured notify types is never sent
C40_OneNotificationPerWindow ==
    /\ OnePerWindow
    /\ CooldownOnlyAfterSend
    /\ OnlyConfiguredTypes

====
